---- MODULE Spec2Model ----
(***************************************************************************)
(* A model of the pyTivo discovery/beacon protocol (beacon.py) and of the  *)
(* streaming delivery engine (plugins/video/video.py).                     *)
(*                                                                         *)
(* Each subsystem has its own group of variables and its own next-state    *)
(* relation; all specifications start from the same initial state, the     *)
(* state after construction.  Text is modelled by TLA+ strings (one        *)
(* character is one byte: all protocol text is ASCII), binary data by      *)
(* sequences of byte values or, where only sizes matter, by its length.    *)
(* The str/bytes distinction of the host language is not modelled.         *)
(***************************************************************************)
EXTENDS Integers, Sequences, FiniteSets, TLC

VARIABLES
    hdrIn,      \* tivo_header: the arguments of the last call
    hdr,        \* tivo_header: the value it returned
    req,        \* send_file: the request being served
    loc,        \* send_file: its local variables
    resp,       \* send_file: status line and headers sent
    wfile,      \* send_file: what was written to handler.wfile, in order
    vpc,        \* send_file: position in the handler
    vlog,       \* send_file: logger.info events
    services,   \* Beacon.services
    udp,        \* send_beacon: its local variables and position
    datagrams,  \* send_beacon: the sendto calls of the current run that sent data
    blog,       \* send_beacon: log records of the current run
    tm,         \* Beacon.timer, and whether Beacon.stop has returned or raised
    platform,   \* Beacon.platform
    bd,         \* Beacon.bd: "unset" before construction, "zc" or "None" after
    zc,         \* the ZCBroadcast object: share_names, share_info, renamed, ...
    rz,         \* the zeroconf.Zeroconf object: calls made on it
    stops,      \* number of Beacon.stop calls so far
    gn,         \* get_name: position, argument, socket reader and result
    peer,       \* get_name: the peer at the other end of tsock
    srv,        \* listen: the server thread (position, accepted client, reader)
    clients,    \* listen: the peers that connect to port 2190
    backlog,    \* listen: connections waiting in the listen queue
    tivos,      \* config.tivos: the registry of discovered devices, by TSN
    scn,        \* ZCBroadcast.scan: its local variables and position
    seen,       \* what the last reader of config.tivos found
    cache,      \* Video.tvbus_cache: (key, details) pairs, least recently used first
    thr,        \* get_details_xml: the request threads calling it
    meta,       \* revision of the metadata of the served files
    fb,         \* format_beacon: the arguments of the last call and its result
    xs,         \* execute_sequence: position, locals and the remove_file calls made
    tl,         \* PyTivoAutomation.transfer_list
    slog,       \* the pyTivo log file the automation reads, line by line
    mon,        \* monitor_all_transfers: its local variables and position
    wdir,       \* the watch directory: the state of each video file
    wt          \* the watcher's main loop: last_file_count and what it has run

hdrVars == <<hdrIn, hdr>>
videoVars == <<req, loc, resp, wfile, vpc, vlog>>
udpVars == <<services, udp, datagrams, blog, tm>>
zcVars == <<platform, bd, zc, rz, stops>>
vars == <<hdrIn, hdr, req, loc, resp, wfile, vpc, vlog, services, udp, datagrams, blog, tm,
          platform, bd, zc, rz, stops, gn, peer, srv, clients, backlog,
          tivos, scn, seen, cache, thr, meta, fb,
          xs, tl, slog, mon, wdir, wt>>
gnVars == <<gn, peer>>
tcpVars == <<srv, clients, backlog>>
scanVars == <<tivos, scn, seen>>
cacheVars == <<cache, thr, meta>>
textVars == <<fb>>
xferVars == <<xs, tl, slog, mon>>
watchVars == <<wdir, wt>>

(***************************************************************************)
(* Helpers                                                                 *)
(***************************************************************************)
RECURSIVE SumSeq(_)
SumSeq(s) == IF s = <<>> THEN 0 ELSE Head(s) + SumSeq(Tail(s))

Min(a, b) == IF a < b THEN a ELSE b

\* the absent value (Python None), comparable with every record of the model
None == [none |-> TRUE]

(***************************************************************************)
(* Container Header Builder: Video.tivo_header                             *)
(***************************************************************************)
MIME_TIVO == "video/x-tivo-mpeg"
MIME_TIVO_TS == "video/x-tivo-mpeg-ts"
MIME_MPEG == "video/mpeg"
MIMES == {MIME_TIVO, MIME_TIVO_TS, MIME_MPEG}

\* Largest metadata block length the header builder is exercised with.
MaxDetailsLen == 520

\* struct format characters of the standard ('>') layout and their sizes
FmtSize(c) == CASE c = "H" -> 2 [] c = "L" -> 4 [] c = "I" -> 4
\* an unsigned field holds 0 .. 2^(8*size) - 1; every number of this model is
\* below 2^31, so only the 16-bit fields can overflow
FmtFits(c, v) == v >= 0 /\ (c = "H" => v < 65536)

\* struct.pack('>...', *vals): one field per format character, no alignment;
\* a value outside its field's range raises struct.error
struct_pack(fmt, vals) ==
    IF \A i \in 1..Len(fmt) : FmtFits(fmt[i], vals[i])
    THEN [kind |-> "packed", fmt |-> fmt, vals |-> vals,
          len |-> SumSeq([i \in 1..Len(fmt) |-> FmtSize(fmt[i])])]
    ELSE [kind |-> "struct.error", fmt |-> fmt, vals |-> vals, len |-> 0]

\* a run of text or of NUL bytes, by its length
Bytes(kind, n) == [kind |-> kind, len |-> n]

padBroken(length, align) == length % align

pad(length, align) ==
    LET extra == length % align
    IN IF extra # 0 THEN align - extra ELSE extra

\* a format flag that does not look at the MIME type
format_flag_ts_always(mime) == 45

\* lines 453-456: 45 for transport-stream delivery, 13 for program-stream
format_flag(mime) == IF mime = MIME_TIVO_TS THEN 45 ELSE 13

\* tivo_header with the size field carrying the block length alone
tivo_header_blocklen_size(mime, ld) ==
    LET flag == format_flag(mime)
        lc == ld + (pad(ld, 4) + 4)
        chunk == [kind |-> "chunk", len |-> lc, details |-> ld]
        blocklen == lc * 2 + 40
        padding == pad(blocklen, 1024)
    IN << Bytes("TiVo", 4),
          struct_pack(<<"H", "H", "H", "L", "H">>, <<4, flag, 0, blocklen, 2>>),
          struct_pack(<<"L", "L", "H", "H">>, <<lc + 12, ld, 1, 0>>),
          chunk,
          struct_pack(<<"L", "L", "H", "H">>, <<lc + 12, ld, 2, 0>>),
          chunk,
          Bytes("NUL", padding) >>

\* tivo_header, given the length of the details block get_details_xml returns
tivo_header(mime, ld) ==
    LET flag == format_flag(mime)
        lc == ld + (pad(ld, 4) + 4)
        chunk == [kind |-> "chunk", len |-> lc, details |-> ld]
        blocklen == lc * 2 + 40
        padding == pad(blocklen, 1024)
    IN << Bytes("TiVo", 4),
          struct_pack(<<"H", "H", "H", "L", "H">>, <<4, flag, 0, padding + blocklen, 2>>),
          struct_pack(<<"L", "L", "H", "H">>, <<lc + 12, ld, 1, 0>>),
          chunk,
          struct_pack(<<"L", "L", "H", "H">>, <<lc + 12, ld, 2, 0>>),
          chunk,
          Bytes("NUL", padding) >>

\* len() of a joined header
HeaderLen(h) == SumSeq([i \in 1..Len(h) |-> h[i].len])

HdrInit == hdrIn = None /\ hdr = <<>>

\* one call of tivo_header on a details block of any length
TivoHeader ==
    /\ hdrIn = None
    /\ \E mime \in MIMES, ld \in 0..MaxDetailsLen :
        /\ hdrIn' = [mime |-> mime, ld |-> ld]
        /\ hdr' = tivo_header(mime, ld)
    /\ UNCHANGED <<videoVars, udpVars, zcVars, gnVars, tcpVars, xferVars, watchVars, textVars, cacheVars, scanVars>>

\* the caller drops the header; the builder keeps no state between calls
TivoHeaderDrop ==
    /\ hdrIn # None
    /\ hdrIn' = None
    /\ hdr' = <<>>
    /\ UNCHANGED <<videoVars, udpVars, zcVars, gnVars, tcpVars, xferVars, watchVars, textVars, cacheVars, scanVars>>

(***************************************************************************)
(* Streaming Delivery Engine: Video.send_file                              *)
(***************************************************************************)
\* f.read(512 * 1024)
BLOCK == 524288

\* Number of whole read blocks in the largest file served.
MaxFileBlocks == 2

\* Number of writes the external transcoder makes at most.
MaxTransWrites == 2

LowerChar(c) ==
    CASE c = "T" -> "t" [] c = "I" -> "i" [] c = "V" -> "v" [] c = "O" -> "o"
      [] c = "M" -> "m" [] c = "P" -> "p" [] c = "G" -> "g"
      [] OTHER -> c

RECURSIVE lower(_)
lower(s) == IF Len(s) = 0 THEN "" ELSE LowerChar(Head(s)) \o lower(Tail(s))

\* s[-n:]
LastChars(s, n) == IF Len(s) <= n THEN s ELSE SubSeq(s, Len(s) - n + 1, Len(s))

is_tivo_file_of(path) == lower(LastChars(path, 5)) = ".tivo"

Digits == <<"0", "1", "2", "3", "4", "5", "6", "7", "8", "9">>
IsDigit(c) == \E d \in 1..10 : Digits[d] = c
DigitVal(c) == (CHOOSE d \in 1..10 : Digits[d] = c) - 1

RECURSIVE ParseNat(_, _)
ParseNat(s, acc) ==
    IF Len(s) = 0 THEN acc ELSE ParseNat(Tail(s), acc * 10 + DigitVal(Head(s)))

AllDigits(s) == Len(s) > 0 /\ \A i \in 1..Len(s) : IsDigit(SubSeq(s, i, i))

\* int(text): an optional sign and decimal digits, ValueError otherwise
int(text) ==
    IF AllDigits(text) THEN [ok |-> TRUE, val |-> ParseNat(text, 0)]
    ELSE IF Len(text) > 1 /\ Head(text) = "-" /\ AllDigits(Tail(text))
    THEN [ok |-> TRUE, val |-> 0 - ParseNat(Tail(text), 0)]
    ELSE [ok |-> FALSE, val |-> 0]

\* offset = int(handler.headers.get('Range')[6:-1]), 0 on any exception
RangeOffset(range) ==
    IF range = "" THEN 0      \* no Range header: None[6:-1] raises TypeError
    ELSE LET r == int(SubSeq(range, 7, Len(range) - 1))
         IN IF r.ok THEN r.val ELSE 0

Paths == {"/v/a.mpg", "/v/b.tivo", "/v/c.TiVo"}

\* the Format query parameter; "" when the query has none
Formats == MIMES \cup {""}

\* os.path.getsize of the served file
FileSizes ==
    {0, 1, 1024, 3000} \cup {b * BLOCK + d : b \in 1..MaxFileBlocks, d \in {0, 1}}

\* lengths of the details block rendered for the file
DetailLens == {10, MaxDetailsLen}

\* resume offsets a client asks for, around the sizes that matter
OffsetsFor(fsize) ==
    {n \in {1, 1023, 1024, 2047, 2048, fsize - 1, fsize, fsize + 1, fsize + 1024} :
        n >= 1} \cup {-1}

\* Range headers: absent, "bytes=N-", and a closed range, which does not parse
RangesFor(fsize) ==
    {"", "bytes=0-499"} \cup {"bytes=" \o ToString(n) \o "-" : n \in OffsetsFor(fsize)}

Header(resp_, name) ==
    LET idx == {i \in 1..Len(resp_.headers) : resp_.headers[i][1] = name}
    IN IF idx = {} THEN None ELSE [value |-> resp_.headers[CHOOSE i \in idx : TRUE][2]]

\* 'bytes %d-%d/%d' % (a, b, total)
ContentRange(a, b, total) ==
    "bytes " \o ToString(a) \o "-" \o ToString(b) \o "/" \o ToString(total)

VideoInit ==
    /\ req = None
    /\ loc = None
    /\ resp = None
    /\ wfile = <<>>
    /\ vpc = "idle"
    /\ vlog = <<>>

\* lines 92-94: the probe is only asked when no unwrapping is needed
compatible_probe_only(needs_tivodecode, probe) == probe

compatible_of(needs_tivodecode, probe) == ~needs_tivodecode /\ probe

\* line 111, commented out in the source: the transport-stream MIME as well
faking_ts(mime, is_tivo_file, compatible) ==
    mime \in {MIME_TIVO_TS, MIME_TIVO} /\ ~(is_tivo_file /\ compatible)

\* the faking decision of send_file
faking_of(mime, is_tivo_file, compatible) ==
    mime = MIME_TIVO /\ ~(is_tivo_file /\ compatible)

\* the validity verdict of send_file; getsize is the file's size, or None
\* when os.path.getsize raises
valid_of(needs_tivodecode, tool, mak, compatible, offset, getsize, resumable) ==
    LET valid0 == IF needs_tivodecode THEN tool /\ mak ELSE TRUE
    IN IF valid0 /\ offset # 0
       THEN IF compatible
            THEN IF getsize = None THEN [raised |-> TRUE, valid |-> FALSE]
                 ELSE [raised |-> FALSE, valid |-> offset < getsize.size]
            ELSE [raised |-> FALSE, valid |-> resumable]
       ELSE [raised |-> FALSE, valid |-> valid0]

\* Content-Length and Content-Range of a compatible response
LengthHeaders(size, offset) ==
    << <<"Content-Length", size - offset>>,
       <<"Content-Range", ContentRange(offset, size - offset - 1, size)>> >>

\* send_file up to the first body write: verdicts, status line, headers, and
\* the 'Start sending' log line.  The answers of the collaborators (probe,
\* configuration, transcoder, file system) are inputs.  The request record
\* keeps them; the configuration answers of a request that needs no
\* unwrapping, and the transcoder's answer where it is not asked and nothing
\* is unwrapped, are kept as FALSE.
send_file_head ==
    /\ vpc = "idle"
    /\ \E path \in Paths, format \in Formats, fsize \in FileSizes,
          exists \in BOOLEAN, ld \in DetailLens,
          probe \in BOOLEAN, tool \in BOOLEAN, mak \in BOOLEAN, resumable \in BOOLEAN :
       \E range \in RangesFor(fsize) :
        LET mime == IF format # "" THEN format ELSE MIME_TIVO
            is_tivo_file == is_tivo_file_of(path)
            needs_tivodecode == is_tivo_file /\ mime = MIME_MPEG
            compatible == compatible_of(needs_tivodecode, probe)
            offset == RangeOffset(range)
            getsize == IF exists THEN [size |-> fsize] ELSE None
            v == valid_of(needs_tivodecode, tool, mak, compatible, offset,
                          getsize, resumable)
            faking == faking_of(mime, is_tivo_file, compatible)
            thead == IF faking THEN tivo_header(mime, ld) ELSE <<>>
            raised == v.raised \/ (compatible /\ getsize = None)
            size == IF compatible /\ ~raised THEN fsize + HeaderLen(thead) ELSE 0
        IN  /\ ~faking => ld = 10
            /\ req' = [path |-> path, format |-> format, range |-> range,
                       fsize |-> fsize, exists |-> exists, ld |-> ld,
                       probe |-> probe,
                       tivodecode |-> needs_tivodecode /\ tool,
                       tivo_mak |-> needs_tivodecode /\ mak,
                       resumable |-> resumable /\
                           (needs_tivodecode \/ (offset # 0 /\ ~compatible))]
            /\ loc' = [mime |-> mime, is_tivo_file |-> is_tivo_file,
                       needs_tivodecode |-> needs_tivodecode,
                       compatible |-> compatible, offset |-> offset,
                       valid |-> v.valid, faking |-> faking, thead |-> thead,
                       size |-> size, count |-> 0, fpos |-> 0, broken |-> FALSE]
            /\ IF raised
               THEN /\ resp' = None
                    /\ vlog' = vlog
                    /\ vpc' = "raised"
               ELSE /\ resp' = [status |-> IF compatible THEN 200 ELSE 206,
                                headers |->
                                   (IF compatible THEN LengthHeaders(size, offset)
                                    ELSE << <<"Transfer-Encoding", "chunked">> >>)
                                   \o << <<"Content-Type", mime>> >>]
                    /\ vlog' = Append(vlog, "Start sending")
                    /\ vpc' = "body"
            /\ wfile' = wfile
    /\ UNCHANGED <<hdrVars, udpVars, zcVars, gnVars, tcpVars, xferVars, watchVars, textVars, cacheVars, scanVars>>

\* handler.wfile.write(data): appends to the connection, or raises when the
\* client has gone; once the connection is broken every later write raises
Written(kind, n) == Append(wfile, [kind |-> kind, len |-> n])

\* line 137 without its offset test
writes_thead_any_offset(faking, offset) == faking

\* line 137: 'if faking and not offset'
writes_thead(faking, offset) == faking /\ offset = 0

\* lines 136-138: the synthetic header goes out first, outside any try
send_file_thead ==
    /\ vpc = "body" /\ loc.valid /\ loc.compatible
    /\ IF writes_thead(loc.faking, loc.offset)
       THEN \/ /\ wfile' = Written("thead", HeaderLen(loc.thead))
               /\ vpc' = "open"
               /\ loc' = loc
            \/ /\ wfile' = wfile
               /\ vpc' = "raised"
               /\ loc' = [loc EXCEPT !.broken = TRUE]
       ELSE /\ wfile' = wfile
            /\ vpc' = "open"
            /\ loc' = loc
    /\ UNCHANGED <<hdrVars, udpVars, zcVars, gnVars, tcpVars, xferVars, watchVars, textVars, cacheVars, scanVars, req, resp, vlog>>

\* the file position a resumed transfer starts from (line 143)
seek_target(offset, thead) == offset - HeaderLen(thead)

\* lines 140-144: open the file and seek; a negative position makes seek
\* raise, which the except clause of line 151 logs
send_file_open ==
    /\ vpc = "open"
    /\ IF loc.offset # 0
       THEN LET target == seek_target(loc.offset, loc.thead)
            IN IF target < 0
               THEN /\ loc' = [loc EXCEPT !.offset = target]
                    /\ vpc' = "close"
               ELSE /\ loc' = [loc EXCEPT !.offset = target, !.fpos = target]
                    /\ vpc' = "loop"
       ELSE /\ loc' = loc
            /\ vpc' = "loop"
    /\ UNCHANGED <<hdrVars, udpVars, zcVars, gnVars, tcpVars, xferVars, watchVars, textVars, cacheVars, scanVars, req, resp, wfile, vlog>>

\* f.read(512 * 1024) at position fpos of a file of fsize bytes
read_len(fsize, fpos) ==
    IF fpos >= fsize THEN 0 ELSE Min(BLOCK, fsize - fpos)

\* a handler that logs the exception inside the loop and reads on
on_write_error_read_on == "loop"

\* lines 151-153: the except clause is outside the while loop, so the
\* exception of a write ends the loop and f.close() is next
on_write_error == "close"

\* lines 145-152: one turn of the copy loop
send_file_block ==
    /\ vpc = "loop"
    /\ LET n == read_len(req.fsize, loc.fpos)
       IN IF n = 0
          THEN /\ vpc' = "close"
               /\ UNCHANGED <<loc, wfile>>
          ELSE \/ /\ wfile' = Written("file", n)
                  /\ loc' = [loc EXCEPT !.count = @ + n, !.fpos = @ + n]
                  /\ vpc' = "loop"
               \/ /\ wfile' = wfile
                  /\ loc' = [loc EXCEPT !.broken = TRUE]
                  /\ vpc' = on_write_error
    /\ UNCHANGED <<hdrVars, udpVars, zcVars, gnVars, tcpVars, xferVars, watchVars, textVars, cacheVars, scanVars, req, resp, vlog>>

\* line 153
send_file_close ==
    /\ vpc = "close"
    /\ vpc' = "tail"
    /\ UNCHANGED <<hdrVars, udpVars, zcVars, gnVars, tcpVars, xferVars, watchVars, textVars, cacheVars, scanVars, req, loc, resp, wfile, vlog>>

RECURSIVE TransWrites(_, _, _)
TransWrites(w, kind, n) ==
    IF n = 0 THEN w ELSE TransWrites(Append(w, [kind |-> kind, len |-> BLOCK]), kind, n - 1)

\* lines 154-161: the external transcoder writes its stream to wfile and
\* returns the byte count; with an offset the stream is resumed, otherwise
\* the header is handed to the transcoder, which emits it first
send_file_transcode ==
    /\ vpc = "body" /\ loc.valid /\ ~loc.compatible
    /\ \E n \in 0..MaxTransWrites :
         IF loc.offset # 0
         THEN /\ wfile' = TransWrites(wfile, "resumed", n)
              /\ loc' = [loc EXCEPT !.count = n * BLOCK]
         ELSE /\ wfile' = TransWrites(
                    IF loc.thead # <<>> THEN Written("thead", HeaderLen(loc.thead))
                    ELSE wfile, "transcoded", n)
              /\ loc' = [loc EXCEPT !.count = n * BLOCK]
    /\ vpc' = "tail"
    /\ UNCHANGED <<hdrVars, udpVars, zcVars, gnVars, tcpVars, xferVars, watchVars, textVars, cacheVars, scanVars, req, resp, vlog>>

\* line 135: nothing is streamed for an invalid request
send_file_invalid ==
    /\ vpc = "body" /\ ~loc.valid
    /\ vpc' = "tail"
    /\ UNCHANGED <<hdrVars, udpVars, zcVars, gnVars, tcpVars, xferVars, watchVars, textVars, cacheVars, scanVars, req, loc, resp, wfile, vlog>>

\* line 163: the marker is written for every response that is not compatible
marker_always(compatible) == TRUE

needs_marker(compatible) == ~compatible

\* lines 162-181: the zero-length chunk of a chunked response, the flush, and
\* the 'Done sending' log line; a write or flush that fails (the client has
\* gone) is logged and swallowed
send_file_tail ==
    /\ vpc = "tail"
    /\ LET marked == IF needs_marker(loc.compatible) THEN Written("marker", 5)
                     ELSE wfile
       IN \/ /\ ~loc.broken
             /\ wfile' = Append(marked, [kind |-> "flush", len |-> 0])
             /\ loc' = loc
          \/ /\ ~loc.broken /\ needs_marker(loc.compatible)
             /\ wfile' = marked
             /\ loc' = [loc EXCEPT !.broken = TRUE]
          \/ /\ wfile' = wfile
             /\ loc' = [loc EXCEPT !.broken = TRUE]
    /\ vlog' = Append(vlog, "Done sending")
    /\ vpc' = "done"
    /\ UNCHANGED <<hdrVars, udpVars, zcVars, gnVars, tcpVars, xferVars, watchVars, textVars, cacheVars, scanVars, req, resp>>

\* the handler returns (or its exception reaches the request framework) and
\* the next request can be served
send_file_return ==
    /\ vpc \in {"done", "raised"}
    /\ req' = None /\ loc' = None /\ resp' = None
    /\ wfile' = <<>> /\ vlog' = <<>>
    /\ vpc' = "idle"
    /\ UNCHANGED <<hdrVars, udpVars, zcVars, gnVars, tcpVars, xferVars, watchVars, textVars, cacheVars, scanVars>>

NextVideo ==
    \/ send_file_head
    \/ send_file_thead
    \/ send_file_open
    \/ send_file_block
    \/ send_file_close
    \/ send_file_transcode
    \/ send_file_invalid
    \/ send_file_tail
    \/ send_file_return

\* bytes of the response body on the wire: header bytes plus file bytes
BodyBytes(w) ==
    SumSeq([i \in 1..Len(w) |-> IF w[i].kind \in {"flush", "marker"} THEN 0 ELSE w[i].len])

FileBytes(w) == SumSeq([i \in 1..Len(w) |-> IF w[i].kind = "file" THEN w[i].len ELSE 0])

(***************************************************************************)
(* Beacon protocol: Beacon.format_beacon, add_service, send_beacon         *)
(***************************************************************************)
PLATFORM_VIDEO == "pc/pyTivo"
PLATFORM_MAIN == "pyTivo"

\* the UDP and TCP beacon port
BEACON_PORT == 2190

\* config.getGUID() and socket.gethostname() of the serving machine
GUID == "123456"
HOSTNAME == "mediabox"

\* Number of services registered with add_service at most.
MaxServices == 2

\* Number of addresses in the configured beacon target list at most.
MaxTargets == 2

\* Number of partial sendto results per target at most.
MaxPartialSends == 1

RECURSIVE join(_, _)
join(sep, list) ==
    IF list = <<>> THEN ""
    ELSE IF Len(list) = 1 THEN list[1]
    ELSE list[1] \o sep \o join(sep, Tail(list))

format_services(svcs) == join(";", svcs)

\* the lines joined, without the newline that ends the last one
format_beacon_unterminated(conntype, with_services, svcs, plat) ==
    join("\n", << "tivoconnect=1", "method=" \o conntype, "identity={" \o GUID \o "}",
                  "machine=" \o HOSTNAME, "platform=" \o plat,
                  IF with_services THEN "services=" \o format_services(svcs)
                  ELSE "services=TiVoMediaServer:0/http" >>)

\* the text of a beacon; the listener and get_name pass conntype 'connected'
format_beacon(conntype, with_services, svcs, plat) ==
    LET beacon == << "tivoconnect=1",
                     "method=" \o conntype,
                     "identity={" \o GUID \o "}",
                     "machine=" \o HOSTNAME,
                     "platform=" \o plat >>
        last == IF with_services THEN "services=" \o format_services(svcs)
                ELSE "services=TiVoMediaServer:0/http"
    IN join("\n", Append(beacon, last)) \o "\n"

IsSpace(c) == c \in {" ", "\t", "\n"}

\* str.split(): the maximal runs of non-whitespace characters
RECURSIVE SplitFrom(_, _, _)
SplitFrom(s, cur, acc) ==
    IF Len(s) = 0
    THEN IF cur = "" THEN acc ELSE Append(acc, cur)
    ELSE IF IsSpace(Head(s))
         THEN SplitFrom(Tail(s), "", IF cur = "" THEN acc ELSE Append(acc, cur))
         ELSE SplitFrom(Tail(s), cur \o Head(s), acc)

split(s) == SplitFrom(s, "", <<>>)

TargetAtoms == {"listen", "10.0.0.5", "192.168.1.255", "listening"}

\* values of config.getBeaconAddresses(): target lists of up to MaxTargets
\* words, and two with irregular white space
BeaconAddresses ==
    {join(" ", t) : t \in UNION {[1..n -> TargetAtoms] : n \in 0..MaxTargets}}
        \cup {"  listen\t10.0.0.5 ", "10.0.0.5  listen"}

ServiceNames == <<"TiVoMediaServer:9032/http", "TiVoMediaServer:9033/http",
                  "TiVoMediaServer:9034/http">>

UdpInit ==
    /\ services = <<>>
    /\ udp = [pc |-> "idle"]
    /\ datagrams = <<>>
    /\ blog = <<>>
    /\ tm = [timer |-> "unset", stopped |-> FALSE, raised |-> FALSE]

never_listen(beacon_ip) == FALSE

\* 'listen' is the reserved receive-only token of the target list
is_listen(beacon_ip) == beacon_ip = "listen"

\* lines 197-200: read the configured list, format the beacon, enter the loop
send_beacon_enter(svcs, caller) ==
    \E beacon_ips \in BeaconAddresses :
        /\ udp' = [pc |-> "target", caller |-> caller, beacon_ips |-> beacon_ips,
                   targets |-> split(beacon_ips), i |-> 1,
                   beacon |-> format_beacon("broadcast", TRUE, svcs, platform),
                   packet |-> "", bytes_sent |-> 0, partials |-> 0]
        /\ datagrams' = <<>>
        /\ blog' = <<>>

\* Beacon.add_service: register the service, then broadcast at once
add_service ==
    /\ udp.pc \in {"idle", "done"}
    /\ Len(services) < MaxServices
    /\ services' = Append(services, ServiceNames[Len(services) + 1])
    /\ send_beacon_enter(services', "add_service")
    /\ UNCHANGED <<hdrVars, videoVars, zcVars, gnVars, tcpVars, xferVars, watchVars, textVars, cacheVars, scanVars, tm>>

\* Beacon.start, first half: called by setup() while no timer exists, and
\* afterwards by the timer it armed, 60 seconds later, on the timer's thread;
\* a timer that was cancelled in time does not call it
start ==
    /\ udp.pc \in {"idle", "done"}
    /\ tm.timer \in {"unset", "armed"}
    /\ tm' = [tm EXCEPT !.timer = IF @ = "armed" THEN "fired" ELSE @]
    /\ send_beacon_enter(services, "start")
    /\ UNCHANGED <<hdrVars, videoVars, zcVars, gnVars, tcpVars, xferVars, watchVars, textVars, cacheVars, scanVars, services>>

\* Beacon.start, lines 217-218: send_beacon has returned; a new Timer is
\* stored in self.timer and started
start_arm ==
    /\ udp.pc = "arm"
    /\ tm' = [tm EXCEPT !.timer = "armed"]
    /\ udp' = [udp EXCEPT !.pc = "done"]
    /\ UNCHANGED <<hdrVars, videoVars, zcVars, gnVars, tcpVars, xferVars, watchVars, textVars, cacheVars, scanVars, services, datagrams, blog>>

\* lines 200-204: take the next target; 'listen' is passed over
send_beacon_target ==
    /\ udp.pc = "target"
    /\ IF udp.i > Len(udp.targets)
       THEN udp' = [udp EXCEPT !.pc = IF udp.caller = "start" THEN "arm" ELSE "done"]
       ELSE IF is_listen(udp.targets[udp.i])
       THEN udp' = [udp EXCEPT !.i = @ + 1]
       ELSE udp' = [udp EXCEPT !.pc = "send", !.packet = udp.beacon,
                               !.bytes_sent = 0, !.partials = 0]
    /\ UNCHANGED <<hdrVars, videoVars, zcVars, gnVars, tcpVars, xferVars, watchVars, textVars, cacheVars, scanVars, services, datagrams, blog, tm>>

\* a send loop that takes a partial send for the whole packet
rest_dropped(packet, result) == ""

\* line 210: packet[result:], the part sendto did not take
rest_of(packet, result) == SubSeq(packet, result + 1, Len(packet))

\* lines 205-213: one turn of the send loop.  sendto returns the number of
\* bytes it took (all of them, or fewer) or raises
send_beacon_sendto ==
    /\ udp.pc = "send"
    /\ LET ip == udp.targets[udp.i]
       IN IF udp.packet = ""
          THEN /\ blog' = Append(blog, [level |-> "debug", to |-> ip,
                                        bytes |-> udp.bytes_sent])
               /\ udp' = [udp EXCEPT !.pc = "target", !.i = @ + 1]
               /\ datagrams' = datagrams
          ELSE \/ \E result \in {Len(udp.packet), (Len(udp.packet) + 1) \div 2} :
                    /\ result < Len(udp.packet) => udp.partials < MaxPartialSends
                    /\ datagrams' = Append(datagrams,
                          [ip |-> ip, port |-> BEACON_PORT,
                           data |-> SubSeq(udp.packet, 1, result),
                           whole |-> result = Len(udp.beacon)])
                    /\ udp' = [udp EXCEPT
                          !.bytes_sent = @ + result,
                          !.packet = rest_of(udp.packet, result),
                          !.partials = IF result < Len(udp.packet) THEN @ + 1 ELSE @]
                    /\ blog' = blog
               \/ /\ blog' = Append(blog, [level |-> "error", to |-> ip,
                                           bytes |-> udp.bytes_sent])
                  /\ udp' = [udp EXCEPT !.pc = "target", !.i = @ + 1]
                  /\ datagrams' = datagrams
    /\ UNCHANGED <<hdrVars, videoVars, zcVars, gnVars, tcpVars, xferVars, watchVars, textVars, cacheVars, scanVars, services, tm>>

NextUdp ==
    \/ add_service
    \/ start
    \/ send_beacon_target
    \/ send_beacon_sendto
    \/ start_arm

(***************************************************************************)
(* Discovery/Announcement: Beacon.__init__, ZCBroadcast, Beacon.stop       *)
(***************************************************************************)
\* Number of configured shares at most.
MaxShares == 2

\* Number of names the initial scan returns at most.
MaxScanned == 2

\* Number of times Beacon.stop is called at most.
MaxStops == 2

CT_VIDEO == "x-container/tivo-videos"
CT_MUSIC == "x-container/tivo-music"
CT_HTML == "text/html"

\* CONTENT_TYPE of a share's plugin; "" stands for GetPlugin(...) raising
ContentTypes == {CT_VIDEO, CT_MUSIC, CT_HTML, ""}

Sections == {"A", "A [2]", "B"}

\* `hostname -s`
SHORT_HOSTNAME == "mediabox"

\* names the scan can come back with
ScanNames == {"A", "A [2]", "A (mediabox)", "B"}

startswith(text, prefix) ==
    Len(text) >= Len(prefix) /\ SubSeq(text, 1, Len(prefix)) = prefix

\* sub in text
contains(text, sub) ==
    \E i \in 1..(Len(text) - Len(sub) + 1) : SubSeq(text, i, i + Len(sub) - 1) = sub

\* text.split('/')[1]
RECURSIVE UpTo(_, _)
UpTo(text, c) ==
    IF Len(text) = 0 \/ Head(text) = c THEN "" ELSE Head(text) \o UpTo(Tail(text), c)

split_slash_1(text) ==
    LET first == UpTo(text, "/")
    IN UpTo(SubSeq(text, Len(first) + 2, Len(text)), "/")

\* config.getShares(): sections are distinct
ShareConfigs ==
    UNION {{sh \in [1..n -> [section : Sections, ct : ContentTypes]] :
               \A i, j \in 1..n : i # j => sh[i].section # sh[j].section}
           : n \in 0..MaxShares}

ScanResults == {names \in SUBSET ScanNames : Cardinality(names) <= MaxScanned}

\* lines 60-66: the title a share starts with
first_title(section, append_hostname) ==
    IF append_hostname THEN section \o " (" \o SHORT_HOSTNAME \o ")" ELSE section

\* lines 69-76: count up until the title is not one the scan found
RECURSIVE unique_title(_, _, _, _, _)
unique_title(section, append_hostname, title, count, old_titles) ==
    IF title \in old_titles
    THEN unique_title(section, append_hostname,
            IF append_hostname
            THEN section \o " (" \o SHORT_HOSTNAME \o ") [" \o ToString(count + 1) \o "]"
            ELSE section \o " [" \o ToString(count + 1) \o "]",
            count + 1, old_titles)
    ELSE title

\* the instance name of the ServiceInfo (line 78)
instance_name(title, tt) == title \o "._" \o tt \o "._tcp.local."

ZcInit ==
    /\ platform = PLATFORM_VIDEO
    /\ bd = "unset"
    /\ zc = [pc |-> "new"]
    /\ rz = [registered |-> <<>>, unregistered |-> <<>>, closed |-> 0]
    /\ stops = 0

\* Beacon.platform after the loop of lines 152-159
beacon_platform(shares) ==
    IF \E i \in 1..Len(shares) : shares[i].ct \in {CT_MUSIC, "x-container/tivo-photos"}
    THEN PLATFORM_MAIN ELSE PLATFORM_VIDEO

\* Beacon.__init__ with ZCBroadcast.__init__ up to the share loop: Zeroconf is
\* switched off, or zeroconf.Zeroconf() raises, or the scan returns its names
Beacon_init ==
    /\ zc.pc = "new"
    /\ \E shares \in ShareConfigs, get_zc \in BOOLEAN, rz_ok \in BOOLEAN,
          append_hostname \in BOOLEAN, old_titles \in ScanResults :
        /\ platform' = beacon_platform(shares)
        /\ IF get_zc /\ rz_ok
           THEN /\ zc' = [pc |-> "announce", shares |-> shares, i |-> 1,
                          append_hostname |-> append_hostname,
                          old_titles |-> old_titles,
                          share_names |-> <<>>, share_info |-> <<>>,
                          renamed |-> <<>>]
                /\ bd' = "unset"
           ELSE /\ ~append_hostname /\ old_titles = {}
                /\ ~get_zc => rz_ok
                /\ zc' = [pc |-> "none", shares |-> shares]
                /\ bd' = "None"
    /\ UNCHANGED <<hdrVars, videoVars, udpVars, gnVars, tcpVars, xferVars, watchVars, textVars, cacheVars, scanVars, rz, stops>>

\* lines 42-82: one turn of the share loop; registerService answers or raises
ZCBroadcast_share ==
    /\ zc.pc = "announce"
    /\ IF zc.i > Len(zc.shares)
       THEN /\ zc' = [zc EXCEPT !.pc = "ready"]
            /\ bd' = "zc"
            /\ rz' = rz
       ELSE LET section == zc.shares[zc.i].section
                ct == zc.shares[zc.i].ct
                tt == split_slash_1(ct)
                title == unique_title(section, zc.append_hostname,
                            first_title(section, zc.append_hostname), 1, zc.old_titles)
                info == [name |-> instance_name(title, tt), title |-> title,
                         type |-> "_" \o tt \o "._tcp.local.",
                         platform |-> IF contains(ct, "video") THEN PLATFORM_VIDEO
                                      ELSE PLATFORM_MAIN]
            IN IF ct = "" \/ ~startswith(ct, "x-container/")
               THEN /\ zc' = [zc EXCEPT !.i = @ + 1]
                    /\ UNCHANGED <<bd, rz>>
               ELSE \/ /\ rz' = [rz EXCEPT !.registered = Append(@, info.name)]
                       /\ zc' = [zc EXCEPT
                             !.i = @ + 1,
                             !.share_names = Append(@, section),
                             !.share_info = Append(@, info),
                             !.renamed = IF title # first_title(section, zc.append_hostname)
                                         THEN Append(@, <<section, title>>) ELSE @]
                       /\ bd' = bd
                    \/ /\ zc' = [zc EXCEPT !.pc = "failed",
                                           !.share_names = Append(@, section)]
                       /\ bd' = "None"
                       /\ rz' = rz
    /\ UNCHANGED <<hdrVars, videoVars, udpVars, gnVars, tcpVars, xferVars, watchVars, textVars, cacheVars, scanVars, platform, stops>>

RECURSIVE unregister_all(_, _)
unregister_all(calls, infos) ==
    IF infos = <<>> THEN calls
    ELSE unregister_all(Append(calls, Head(infos).name), Tail(infos))

\* ZCBroadcast.shutdown
shutdown(r, z) ==
    [r EXCEPT !.unregistered = unregister_all(@, z.share_info), !.closed = @ + 1]

\* Timer.cancel(): a timer that has not fired yet never will; one that has
\* fired is not affected
cancel(timer) == IF timer = "armed" THEN "cancelled" ELSE timer

\* line 222 left out: shutdown is called on whatever self.bd is
stop_unguarded(b, r, z) ==
    IF b = "zc" THEN [raised |-> FALSE, rz |-> shutdown(r, z)]
    ELSE [raised |-> TRUE, rz |-> r]

\* lines 222-223: shut the announcer down when there is one
stop_bd(b, r, z) ==
    IF b = "zc" THEN [raised |-> FALSE, rz |-> shutdown(r, z)]
    ELSE [raised |-> FALSE, rz |-> r]

\* Beacon.stop, called by mainloop after setup() has called start (so that
\* self.timer exists) and serve() has returned; the timer's thread may be
\* anywhere in start at that moment
stop ==
    /\ bd \in {"zc", "None"}
    /\ stops < MaxStops
    /\ tm.timer # "unset"
    /\ udp.pc \in {"target", "send", "arm"} => udp.caller = "start"
    /\ stops' = stops + 1
    /\ LET res == stop_bd(bd, rz, zc)
       IN /\ rz' = res.rz
          /\ tm' = [timer |-> cancel(tm.timer), stopped |-> ~res.raised,
                    raised |-> res.raised]
    /\ UNCHANGED <<hdrVars, videoVars, gnVars, tcpVars, xferVars, watchVars, textVars, cacheVars, scanVars, platform, bd, zc,
                   services, udp, datagrams, blog>>

\* the configurations under which the whole life of a Beacon (construction,
\* broadcasts, stop) is followed: no share or one video share, and a target
\* list with one address to send to
LifeShareConfigs == {<<>>, <<[section |-> "A", ct |-> CT_VIDEO]>>}
LifeAddresses == {"10.0.0.5", "listen 10.0.0.5"}

\* setup() of pyTivo.py: Beacon(), then add_service and start on the object
setup_Beacon ==
    /\ Beacon_init
    /\ zc'.shares \in LifeShareConfigs
    /\ zc'.pc = "announce" => ~zc'.append_hostname

setup_add_service ==
    /\ bd # "unset" /\ tm.timer = "unset"
    /\ add_service
    /\ udp'.beacon_ips \in LifeAddresses

\* start as setup() calls it and as the timer calls it later
setup_start ==
    /\ bd # "unset"
    /\ start
    /\ udp'.beacon_ips \in LifeAddresses

\* the timer's call of start with no broadcast target configured
start_no_target == bd # "unset" /\ start /\ udp'.targets = <<>>

NextZC ==
    \/ Beacon_init
    \/ ZCBroadcast_share
    \/ start_no_target
    \/ send_beacon_target
    \/ start_arm
    \/ stop

NextLife ==
    \/ setup_Beacon
    \/ ZCBroadcast_share
    \/ setup_add_service
    \/ setup_start
    \/ send_beacon_target
    \/ send_beacon_sendto
    \/ start_arm
    \/ stop

\* number of times name occurs in a sequence of calls
Occurrences(calls, name) == Cardinality({k \in 1..Len(calls) : calls[k] = name})

(***************************************************************************)
(* TCP framing: Beacon.recv_bytes, recv_packet, send_packet                *)
(*                                                                         *)
(* A byte of a stream is its value (an integer) where it is binary and its *)
(* character (a string of length 1) where it is text.                      *)
(***************************************************************************)
\* the characters of a text, and back
Explode(text) == [i \in 1..Len(text) |-> SubSeq(text, i, i)]

RECURSIVE Implode(_)
Implode(chars) ==
    IF chars = <<>> THEN ""
    ELSE IF Len(chars) = 1 THEN chars[1]
    ELSE LET h == Len(chars) \div 2
         IN Implode(SubSeq(chars, 1, h)) \o Implode(SubSeq(chars, h + 1, Len(chars)))

\* struct.pack('!I', n) and struct.unpack('!I', b)[0]
pack_I(n) == <<n \div 16777216, (n \div 65536) % 256, (n \div 256) % 256, n % 256>>
unpack_I(b) == b[1] * 16777216 + b[2] * 65536 + b[3] * 256 + b[4]

\* send_packet: the length prefix, then the packet
frame_of(text) == pack_I(Len(text)) \o Explode(text)

\* the state of one recv_packet call: reading the 4-byte length ("len"), the
\* body ("body"), returned ("done") or raised struct.error ("error")
NewReader == [phase |-> "len", head |-> <<>>, length |-> 0, block |-> <<>>]

\* sock.recv blocks while nothing has arrived and the peer has not closed
CanRecv(rd, inbox, closed) ==
    rd.phase \in {"len", "body"} /\ (inbox # <<>> \/ closed)

Take(inbox, want) == SubSeq(inbox, 1, Min(want, Len(inbox)))
Drop(inbox, want) == SubSeq(inbox, Min(want, Len(inbox)) + 1, Len(inbox))

\* what a length read may stop at; the code unpacks whatever recv_bytes gave
head_complete(head) == Len(head) = 4

\* one sock.recv inside recv_bytes, and what recv_packet does when the
\* recv_bytes loop ends: an empty recv (peer closed) ends the loop early
recv_step(rd, inbox, closed) ==
    IF rd.phase = "len"
    THEN IF inbox = <<>>
         THEN [rd EXCEPT !.phase = "error"]
         ELSE LET head == rd.head \o Take(inbox, 4 - Len(rd.head))
              IN IF head_complete(head)
                 THEN [rd EXCEPT !.head = head, !.length = unpack_I(head),
                                 !.phase = IF unpack_I(head) = 0 THEN "done" ELSE "body"]
                 ELSE [rd EXCEPT !.head = head]
    ELSE IF inbox = <<>>
         THEN [rd EXCEPT !.phase = "done"]
         ELSE LET block == rd.block \o Take(inbox, rd.length - Len(rd.block))
              IN [rd EXCEPT !.block = block,
                            !.phase = IF Len(block) < rd.length THEN "body" ELSE "done"]

\* the bytes the recv of recv_step leaves in the socket
recv_rest(rd, inbox) ==
    IF rd.phase = "len" THEN Drop(inbox, 4 - Len(rd.head))
    ELSE Drop(inbox, rd.length - Len(rd.block))

(***************************************************************************)
(* Beacon.get_name                                                         *)
(***************************************************************************)
\* Number of bytes by which a peer overstates the length of its frame.
MaxOverstate == 3

Addresses == {"10.0.0.7"}

\* beacon texts a peer answers with
PeerTexts == {"tivoconnect=1\nmachine=tv\nplatform=x\n",
              "machine=\n",
              "tivoconnect=1\nmethod=connected\n",
              "machine=tv"}

\* what a peer is going to send: a frame with a true or an overstated length
PeerPlans ==
    {pack_I(Len(t) + over) \o Explode(t) : t \in PeerTexts, over \in {0, MaxOverstate}}

\* re.compile('machine=(.*)\n').search(text): the first 'machine=' that has
\* a newline after it, and the characters up to that newline
MachineAt(text) ==
    {i \in 1..Len(text) :
        /\ i + 7 <= Len(text)
        /\ SubSeq(text, i, i + 7) = "machine="
        /\ \E j \in (i + 8)..Len(text) : SubSeq(text, j, j) = "\n"}

machine_name(text) ==
    IF MachineAt(text) = {} THEN None
    ELSE LET i == CHOOSE k \in MachineAt(text) : \A m \in MachineAt(text) : k <= m
             j == CHOOSE k \in (i + 8)..Len(text) :
                     /\ SubSeq(text, k, k) = "\n"
                     /\ \A m \in (i + 8)..(k - 1) : SubSeq(text, m, m) # "\n"
         IN [group |-> SubSeq(text, i + 8, j - 1)]

GnInit ==
    /\ gn = [pc |-> "idle"]
    /\ peer = [plan |-> <<>>, sent |-> 0, closed |-> FALSE, inbox |-> <<>>]

\* lines 268-274: connect and send our beacon; either may raise, and then the
\* name is the address
get_name_call ==
    /\ gn.pc = "idle"
    /\ \E address \in Addresses, outcome \in {"refused", "reset", "connected"},
          plan \in PeerPlans :
        IF outcome = "connected"
        THEN /\ gn' = [pc |-> "recv", address |-> address, connected |-> TRUE,
                       outcome |-> outcome,
                       our_beacon |-> format_beacon("connected", FALSE, services, platform),
                       rd |-> NewReader, name |-> None]
             /\ peer' = [plan |-> plan, sent |-> 0, closed |-> FALSE, inbox |-> <<>>]
        ELSE /\ plan = pack_I(Len("machine=\n")) \o Explode("machine=\n")
             /\ gn' = [pc |-> "returned", address |-> address, connected |-> FALSE,
                       outcome |-> outcome,
                       our_beacon |-> format_beacon("connected", FALSE, services, platform),
                       rd |-> NewReader, name |-> [value |-> address]]
             /\ peer' = [plan |-> <<>>, sent |-> 0, closed |-> TRUE, inbox |-> <<>>]
    /\ UNCHANGED <<hdrVars, videoVars, udpVars, zcVars, tcpVars, xferVars, watchVars, textVars, cacheVars, scanVars>>

\* the peer writes the next bytes of its answer
peer_send ==
    /\ gn.pc = "recv" /\ ~peer.closed
    /\ \E k \in 1..(Len(peer.plan) - peer.sent) :
         peer' = [peer EXCEPT !.sent = @ + k,
                    !.inbox = @ \o SubSeq(peer.plan, peer.sent + 1, peer.sent + k)]
    /\ UNCHANGED <<hdrVars, videoVars, udpVars, zcVars, tcpVars, xferVars, watchVars, textVars, cacheVars, scanVars, gn>>

\* the peer closes its end, whatever it has sent so far
peer_close ==
    /\ gn.pc = "recv" /\ ~peer.closed
    /\ peer' = [peer EXCEPT !.closed = TRUE]
    /\ UNCHANGED <<hdrVars, videoVars, udpVars, zcVars, tcpVars, xferVars, watchVars, textVars, cacheVars, scanVars, gn>>

\* lines 277-281: decode the packet and pick the machine name out of it; a
\* failed search raises AttributeError and the name is the address
name_from(address, rd) ==
    IF rd.phase = "error" THEN [value |-> address]
    ELSE LET m == machine_name(Implode(rd.block))
         IN IF m = None THEN [value |-> address] ELSE [value |-> m.group]

\* lines 275-283: one recv of recv_packet; when the packet is in (or the
\* read failed) the call finishes
get_name_recv ==
    /\ gn.pc = "recv"
    /\ CanRecv(gn.rd, peer.inbox, peer.closed)
    /\ LET rd == recv_step(gn.rd, peer.inbox, peer.closed)
       IN /\ peer' = [peer EXCEPT !.inbox = recv_rest(gn.rd, peer.inbox)]
          /\ IF rd.phase \in {"done", "error"}
             THEN gn' = [gn EXCEPT !.rd = rd, !.pc = "returned",
                                   !.name = name_from(gn.address, rd)]
             ELSE gn' = [gn EXCEPT !.rd = rd]
    /\ UNCHANGED <<hdrVars, videoVars, udpVars, zcVars, tcpVars, xferVars, watchVars, textVars, cacheVars, scanVars>>

\* the caller has the name; the next call starts afresh
get_name_return ==
    /\ gn.pc = "returned"
    /\ gn' = [pc |-> "idle"]
    /\ peer' = [plan |-> <<>>, sent |-> 0, closed |-> FALSE, inbox |-> <<>>]
    /\ UNCHANGED <<hdrVars, videoVars, udpVars, zcVars, tcpVars, xferVars, watchVars, textVars, cacheVars, scanVars>>

NextGetName ==
    \/ get_name_call
    \/ peer_send
    \/ peer_close
    \/ get_name_recv
    \/ get_name_return

(***************************************************************************)
(* Beacon.listen: the TCP listener thread and the peers that connect       *)
(***************************************************************************)
\* Number of peers that connect to the listener.
NClients == 2

\* Largest payload, in bytes, of the frame a connecting peer sends.
MaxPayload == 1

ClientIds == 1..NClients

\* the frame a peer sends: a true length prefix and a payload of n bytes
client_frame(n) == pack_I(n) \o [i \in 1..n |-> 0]

TcpInit ==
    /\ srv = [pc |-> "accept", client |-> 0, rd |-> NewReader]
    /\ clients = [c \in ClientIds |->
                    [state |-> "new", plan |-> <<>>, sent |-> 0, closed |-> FALSE,
                     inbox |-> <<>>, reply |-> <<>>]]
    /\ backlog = <<>>

\* a peer connects; the kernel completes the handshake and queues it
client_connect(c) ==
    /\ clients[c].state = "new"
    /\ \E n \in 0..MaxPayload :
         clients' = [clients EXCEPT ![c].state = "connected",
                                    ![c].plan = client_frame(n)]
    /\ backlog' = Append(backlog, c)
    /\ UNCHANGED <<hdrVars, videoVars, udpVars, zcVars, gnVars, scanVars, cacheVars, textVars, xferVars, watchVars, srv>>

\* a connected peer writes the next bytes of its frame
client_send(c) ==
    /\ clients[c].state = "connected" /\ ~clients[c].closed
    /\ \E k \in 1..(Len(clients[c].plan) - clients[c].sent) :
         clients' = [clients EXCEPT
            ![c].sent = @ + k,
            ![c].inbox = @ \o SubSeq(clients[c].plan, clients[c].sent + 1,
                                     clients[c].sent + k)]
    /\ UNCHANGED <<hdrVars, videoVars, udpVars, zcVars, gnVars, scanVars, cacheVars, textVars, xferVars, watchVars, srv, backlog>>

\* a connected peer closes its socket, whatever it has sent or received
client_close(c) ==
    /\ clients[c].state = "connected" /\ ~clients[c].closed
    /\ clients' = [clients EXCEPT ![c].closed = TRUE]
    /\ UNCHANGED <<hdrVars, videoVars, udpVars, zcVars, gnVars, scanVars, cacheVars, textVars, xferVars, watchVars, srv, backlog>>

\* line 254: TCPSock.accept()
server_accept ==
    /\ srv.pc = "accept"
    /\ backlog # <<>>
    /\ srv' = [pc |-> "recv", client |-> Head(backlog), rd |-> NewReader]
    /\ backlog' = Tail(backlog)
    /\ UNCHANGED <<hdrVars, videoVars, udpVars, zcVars, gnVars, scanVars, cacheVars, textVars, xferVars, watchVars, clients>>

\* the beacon the listener answers with (line 260)
listen_beacon(svcs, plat) == format_beacon("connected", TRUE, svcs, plat)

\* lines 257-262: one recv of recv_packet on the accepted client; when the
\* packet is in, the answer is sent and the connection closed, and the loop
\* is back at accept.  struct.error, or a send on a connection the peer has
\* closed, is not caught anywhere: it ends the thread.
server_recv ==
    /\ srv.pc = "recv"
    /\ LET c == srv.client
           rd == recv_step(srv.rd, clients[c].inbox, clients[c].closed)
           rest == recv_rest(srv.rd, clients[c].inbox)
       IN /\ CanRecv(srv.rd, clients[c].inbox, clients[c].closed)
          /\ CASE rd.phase = "error" ->
                    /\ srv' = [srv EXCEPT !.pc = "dead", !.rd = rd]
                    /\ clients' = [clients EXCEPT ![c].inbox = rest]
               [] rd.phase = "done" ->
                    \/ /\ srv' = [pc |-> "accept", client |-> 0, rd |-> NewReader]
                       /\ clients' = [clients EXCEPT
                             ![c].inbox = rest,
                             ![c].state = "served",
                             ![c].reply = frame_of(listen_beacon(services, platform))]
                    \/ /\ clients[c].closed
                       /\ srv' = [srv EXCEPT !.pc = "dead", !.rd = rd]
                       /\ clients' = [clients EXCEPT ![c].inbox = rest]
               [] OTHER ->
                    /\ srv' = [srv EXCEPT !.rd = rd]
                    /\ clients' = [clients EXCEPT ![c].inbox = rest]
    /\ UNCHANGED <<hdrVars, videoVars, udpVars, zcVars, gnVars, scanVars, cacheVars, textVars, xferVars, watchVars, backlog>>

ServerStep == server_accept \/ server_recv

NextListen ==
    \/ \E c \in ClientIds : client_connect(c)
    \/ \E c \in ClientIds : client_send(c)
    \/ \E c \in ClientIds : client_close(c)
    \/ server_accept
    \/ server_recv

\* setup() of pyTivo.py registers the HTTP service before listen() is called
listen_add_service ==
    /\ srv.pc = "accept" /\ backlog = <<>>
    /\ \A c \in ClientIds : clients[c].state = "new"
    /\ add_service
    /\ udp'.beacon_ips = "listen"

NextServe ==
    \/ listen_add_service
    \/ send_beacon_target
    \/ NextListen

\* the peer has written its whole frame and still has its socket open
FullSent(c) ==
    /\ clients[c].state \in {"connected", "served"}
    /\ clients[c].sent = Len(clients[c].plan)
    /\ ~clients[c].closed

\* the peer has been sent one well-formed frame that says method=connected
Answered(c) ==
    /\ Len(clients[c].reply) >= 4
    /\ unpack_I(SubSeq(clients[c].reply, 1, 4)) = Len(clients[c].reply) - 4
    /\ contains(Implode(SubSeq(clients[c].reply, 5, Len(clients[c].reply))),
                "\nmethod=connected\n")

(***************************************************************************)
(* The device registry config.tivos: ZCBroadcast.scan writes it, send_file *)
(* and the catalog template read it.  No lock is taken by either.          *)
(***************************************************************************)
\* Number of names a scan comes back with at most.
MaxNames == 2

\* Number of scans at most (one per Beacon; a restart constructs another).
MaxScans == 2

TSNs == {"7460001", "8480002"}

\* what getServiceInfo returns for the names on the network: the TXT
\* properties are (key, value) pairs in the order items() yields them
Ads ==
    { [name |-> "Living Room", address |-> "10.0.0.21", port |-> 443,
       props |-> << <<"TSN", "7460001">>, <<"platform", "tcd/Series4">>,
                    <<"swversion", "20.7.4">> >>],
      [name |-> "Bedroom", address |-> "10.0.0.22", port |-> 443,
       props |-> << <<"tsn", "8480002">>, <<"platform", "tcd/Series5">> >>],
      [name |-> "Den", address |-> "10.0.0.23", port |-> 80,
       props |-> << <<"TSN", "7460001">>, <<"tsn", "8480002">> >>],
      [name |-> "Printer", address |-> "10.0.0.24", port |-> 631,
       props |-> << <<"platform", "ipp">> >>],
      [name |-> "Kitchen", address |-> "10.0.0.25", port |-> 443,
       props |-> << <<"TSN", "8480002">>, <<"address", "10.9.9.9">> >>] }

AdNames == {a.name : a \in Ads}
AdOf(name) == CHOOSE a \in Ads : a.name = name

\* the lists of names the browser has collected after its second of waiting
NameLists ==
    UNION {{l \in [1..n -> AdNames] : \A i, j \in 1..n : i # j => l[i] # l[j]}
           : n \in 0..MaxNames}

\* dict.get(key), "" standing for None
HasKey(props, key) == \E i \in 1..Len(props) : props[i][1] = key
Get(props, key) ==
    IF HasKey(props, key) THEN props[CHOOSE i \in 1..Len(props) : props[i][1] = key][2]
    ELSE ""

\* lines 111-116: the identity property, 'tsn' taking over under togo_all
tsn_of(props, togo_all) ==
    LET tsn == Get(props, "TSN")
    IN IF togo_all THEN (IF HasKey(props, "tsn") THEN Get(props, "tsn") ELSE tsn)
       ELSE tsn

\* lines 120-121: the record as first stored
base_record(info) ==
    [name |-> info.name, address |-> info.address, port |-> info.port, props |-> <<>>]

\* a loop over the properties that stores none of them
set_prop_dropped(rec, kv) == rec

\* line 126: config.tivos[tsn][prop_key] = prop_value
set_prop(rec, kv) ==
    IF kv[1] = "name" THEN [rec EXCEPT !.name = kv[2]]
    ELSE IF kv[1] = "address" THEN [rec EXCEPT !.address = kv[2]]
    ELSE IF kv[1] = "port" THEN [rec EXCEPT !.port = kv[2]]
    ELSE IF HasKey(rec.props, kv[1])
    THEN [rec EXCEPT !.props = [i \in 1..Len(@) |-> IF @[i][1] = kv[1] THEN kv ELSE @[i]]]
    ELSE [rec EXCEPT !.props = Append(@, kv)]

\* the record of lines 120-126 once the loop over the properties is through
RECURSIVE with_props(_, _)
with_props(rec, props) ==
    IF props = <<>> THEN rec ELSE with_props(set_prop(rec, Head(props)), Tail(props))

full_record(info) == with_props(base_record(info), info.props)

\* handler.address_string() of the reading request
CLIENT_ADDRESS == "10.0.0.99"

\* video.py lines 80-85: the display name of the requesting device
tivo_name_of(registry, tsn) ==
    IF tsn # "" /\ tsn \in DOMAIN registry /\ registry[tsn] # None
    THEN registry[tsn].name
    ELSE CLIENT_ADDRESS

ScanInit ==
    /\ tivos = [t \in TSNs |-> None]
    /\ scn = [pc |-> "idle", scans |-> 0, tivos_found |-> FALSE]
    /\ seen = None

\* lines 86-102: browse, wait a second, note whether anything answered
scan_begin ==
    /\ scn.pc = "idle"
    /\ scn.scans < MaxScans
    /\ \E names \in NameLists, togo_all \in BOOLEAN :
         scn' = [pc |-> "resolve", scans |-> scn.scans + 1,
                 tivos_found |-> scn.tivos_found \/ names # <<>>,
                 names |-> names, i |-> 1, togo_all |-> togo_all,
                 tsn |-> "", pending |-> <<>>]
    /\ UNCHANGED <<hdrVars, videoVars, udpVars, zcVars, gnVars, tcpVars, xferVars, watchVars, textVars, cacheVars, tivos, seen>>

\* lines 105-121 and 132-135: resolve the next name; with a TSN the record
\* is stored with name, address and port; at the end of the list scan returns
scan_resolve ==
    /\ scn.pc = "resolve"
    /\ IF scn.i > Len(scn.names)
       THEN /\ scn' = [pc |-> "idle", scans |-> scn.scans,
                       tivos_found |-> scn.tivos_found]
            /\ tivos' = tivos
       ELSE \E answered \in BOOLEAN :
              LET info == AdOf(scn.names[scn.i])
                  tsn == tsn_of(info.props, scn.togo_all)
              IN IF answered /\ tsn # ""
                 THEN /\ tivos' = [tivos EXCEPT ![tsn] = base_record(info)]
                      /\ scn' = [scn EXCEPT !.pc = "props", !.tsn = tsn,
                                            !.pending = info.props]
                 ELSE /\ tivos' = tivos
                      /\ scn' = [scn EXCEPT !.i = @ + 1]
    /\ UNCHANGED <<hdrVars, videoVars, udpVars, zcVars, gnVars, tcpVars, xferVars, watchVars, textVars, cacheVars, seen>>

\* lines 123-131: one turn of the loop over the properties
scan_prop ==
    /\ scn.pc = "props"
    /\ IF scn.pending = <<>>
       THEN /\ scn' = [scn EXCEPT !.pc = "resolve", !.i = @ + 1, !.tsn = ""]
            /\ tivos' = tivos
       ELSE /\ tivos' = [tivos EXCEPT ![scn.tsn] = set_prop(@, Head(scn.pending))]
            /\ scn' = [scn EXCEPT !.pending = Tail(@)]
    /\ UNCHANGED <<hdrVars, videoVars, udpVars, zcVars, gnVars, tcpVars, xferVars, watchVars, textVars, cacheVars, seen>>

\* a request thread looks its device up (video.py lines 80-85, and the
\* 'tivos' entry of the catalog namespace, line 387)
registry_read ==
    /\ \E tsn \in TSNs \cup {""} :
         seen' = [tsn |-> tsn,
                  rec |-> IF tsn \in TSNs THEN tivos[tsn] ELSE None,
                  tivo_name |-> tivo_name_of(tivos, tsn)]
    /\ UNCHANGED <<hdrVars, videoVars, udpVars, zcVars, gnVars, tcpVars, xferVars, watchVars, textVars, cacheVars, tivos, scn>>

NextScan ==
    \/ scan_begin
    \/ scan_resolve
    \/ scan_prop
    \/ registry_read

(***************************************************************************)
(* The details cache: Video.tvbus_cache and get_details_xml.  The cache    *)
(* class itself is bounded with least-recently-used eviction; each of its  *)
(* operations is taken as one step.                                        *)
(***************************************************************************)
\* LRUCache(1)
CACHE_SIZE == 1

\* Number of times the metadata of the served files is edited at most.
MaxRevisions == 1

\* Number of request threads inside get_details_xml at most.
NThreads == 2

Threads == 1..NThreads

\* (tsn, file_path) keys
CacheKeys == {<<"7460001", "/v/a.mpg">>, <<"7460001", "/v/b.tivo">>, <<"", "/v/a.mpg">>}

\* str(t): the details block rendered for a key from the metadata the
\* file has at that moment
render(key, rev) ==
    "<TvBusMarshalledStruct tsn='" \o key[1] \o "' file='" \o key[2]
        \o "' rev='" \o ToString(rev) \o "'/>"

\* key in cache
cache_has(c, key) == \E i \in 1..Len(c) : c[i][1] = key

cache_index(c, key) == CHOOSE i \in 1..Len(c) : c[i][1] = key

\* the cache without its entry for key
cache_without(c, key) == SelectSeq(c, LAMBDA e : e[1] # key)

\* cache[key]: the entry becomes the most recently used
cache_get(c, key) ==
    [value |-> c[cache_index(c, key)][2],
     cache |-> Append(cache_without(c, key), c[cache_index(c, key)])]

\* cache[key] = value: at capacity the least recently used entry goes
cache_set(c, key, value) ==
    LET rest == cache_without(c, key)
        kept == IF Len(rest) >= CACHE_SIZE
                THEN SubSeq(rest, Len(rest) - CACHE_SIZE + 2, Len(rest))
                ELSE rest
    IN Append(kept, <<key, value>>)

CacheInit ==
    /\ cache = <<>>
    /\ meta = 0
    /\ thr = [t \in Threads |-> [pc |-> "idle"]]

\* line 427: a request thread enters and tests for its key
details_test(t) ==
    /\ thr[t].pc = "idle"
    /\ \E key \in CacheKeys :
         thr' = [thr EXCEPT ![t] = [pc |-> IF cache_has(cache, key) THEN "read"
                                           ELSE "render",
                                    key |-> key]]
    /\ cache' = cache /\ meta' = meta
    /\ UNCHANGED <<hdrVars, videoVars, udpVars, zcVars, gnVars, tcpVars, xferVars, watchVars, textVars, scanVars>>

\* line 428: the read after a successful test; KeyError when the entry has
\* gone in between
details_read(t) ==
    /\ thr[t].pc = "read"
    /\ meta' = meta
    /\ IF cache_has(cache, thr[t].key)
       THEN /\ thr' = [thr EXCEPT ![t] = [pc |-> "returned", key |-> thr[t].key,
                                          details |-> cache_get(cache, thr[t].key).value]]
            /\ cache' = cache_get(cache, thr[t].key).cache
       ELSE /\ thr' = [thr EXCEPT ![t] = [pc |-> "raised", key |-> thr[t].key]]
            /\ cache' = cache
    /\ UNCHANGED <<hdrVars, videoVars, udpVars, zcVars, gnVars, tcpVars, xferVars, watchVars, textVars, scanVars>>

\* lines 430-442 without the store of line 443
details_render_unstored(t) ==
    /\ thr[t].pc = "render"
    /\ thr' = [thr EXCEPT ![t] = [pc |-> "returned", key |-> thr[t].key,
                                  details |-> render(thr[t].key, meta)]]
    /\ cache' = cache
    /\ meta' = meta
    /\ UNCHANGED <<hdrVars, videoVars, udpVars, zcVars, gnVars, tcpVars, xferVars, watchVars, textVars, scanVars>>

\* lines 430-443: render the details and store them
details_render(t) ==
    /\ thr[t].pc = "render"
    /\ thr' = [thr EXCEPT ![t] = [pc |-> "returned", key |-> thr[t].key,
                                  details |-> render(thr[t].key, meta)]]
    /\ cache' = cache_set(cache, thr[t].key, render(thr[t].key, meta))
    /\ meta' = meta
    /\ UNCHANGED <<hdrVars, videoVars, udpVars, zcVars, gnVars, tcpVars, xferVars, watchVars, textVars, scanVars>>

\* line 444, or the KeyError leaving the call
details_return(t) ==
    /\ thr[t].pc \in {"returned", "raised"}
    /\ thr' = [thr EXCEPT ![t] = [pc |-> "idle"]]
    /\ cache' = cache /\ meta' = meta
    /\ UNCHANGED <<hdrVars, videoVars, udpVars, zcVars, gnVars, tcpVars, xferVars, watchVars, textVars, scanVars>>

\* the metadata of the served files is edited on disk; nothing tells the
\* cache
metadata_edit ==
    /\ meta < MaxRevisions
    /\ meta' = meta + 1
    /\ UNCHANGED <<hdrVars, videoVars, udpVars, zcVars, gnVars, tcpVars, xferVars, watchVars, textVars, scanVars, cache, thr>>

NextCache ==
    \/ metadata_edit
    \/ \E t \in Threads : details_test(t)
    \/ \E t \in Threads : details_read(t)
    \/ \E t \in Threads : details_render(t)
    \/ \E t \in Threads : details_return(t)

(***************************************************************************)
(* format_beacon called on its own, over its arguments and the object's    *)
(* services and platform                                                   *)
(***************************************************************************)
ConnTypes == {"broadcast", "connected"}

\* values of Beacon.services: up to MaxServices + 1 registered names
ServiceLists ==
    UNION {[1..n -> {ServiceNames[1], ServiceNames[2], "TiVoMediaServer:80/http"}]
           : n \in 0..(MaxServices + 1)}

TextInit == fb = None

format_beacon_call ==
    /\ fb = None
    /\ \E conntype \in ConnTypes, with_services \in BOOLEAN,
          svcs \in ServiceLists, plat \in {PLATFORM_VIDEO, PLATFORM_MAIN} :
         fb' = [conntype |-> conntype, services |-> with_services,
                svcs |-> svcs, platform |-> plat,
                text |-> format_beacon(conntype, with_services, svcs, plat)]
    /\ UNCHANGED <<hdrVars, videoVars, udpVars, zcVars, gnVars, tcpVars, xferVars, watchVars, scanVars, cacheVars>>

\* the caller is through with the text
format_beacon_drop ==
    /\ fb # None
    /\ fb' = None
    /\ UNCHANGED <<hdrVars, videoVars, udpVars, zcVars, gnVars, tcpVars, xferVars, watchVars, scanVars, cacheVars>>

NextText == format_beacon_call \/ format_beacon_drop

(***************************************************************************)
(* pytivo_transfer.py: PyTivoAutomation.execute_sequence with              *)
(* transfer_all_items and monitor_all_transfers, and the pyTivo server     *)
(* writing its log while they run.  A position in the log file is the      *)
(* number of whole lines before it.                                        *)
(***************************************************************************)
\* Number of items LOCATE_SHARE reports in the share at most.
MaxItems == 2

\* Number of lines the server appends to its log at most.
MaxLogLines == 3

\* transfer_all_items(max_items=50)
MAX_ITEMS == 50

\* base names of the files in the share
XferFiles == {"a.mpg", "b.mpg"}

\* the command sequences of the navigation configuration that are followed
Sequences ==
    { <<"TRANSFER_ALL", "DELETE_SOURCE_FILE">>,
      <<"TRANSFER_ALL">>,
      <<"DELETE_SOURCE_FILE">> }

XferInit ==
    /\ xs = [pc |-> "idle"]
    /\ tl = <<>>
    /\ slog = <<>>
    /\ mon = [pc |-> "off"]

\* the 'Start sending' and 'Done sending' lines of send_file, with the base
\* name of the file they quote
LogLine(kind, file) == [kind |-> kind, file |-> file]

InFlight(log, file) ==
    Cardinality({i \in 1..Len(log) : log[i] = LogLine("Start", file)}) >
    Cardinality({i \in 1..Len(log) : log[i] = LogLine("Done", file)})

\* the server serves a request of the TiVo and logs it: a transfer starts, or
\* one that has started is done
server_log ==
    /\ xs.pc \in {"cmd", "queue", "monitor"}
    /\ Len(slog) < MaxLogLines
    /\ \E file \in XferFiles :
         slog' = Append(slog, IF InFlight(slog, file) THEN LogLine("Done", file)
                              ELSE LogLine("Start", file))
    /\ UNCHANGED <<hdrVars, videoVars, udpVars, zcVars, gnVars, tcpVars, scanVars,
                   cacheVars, textVars, watchVars, xs, tl, mon>>

\* f.seek(pos); f.readlines()
lines_from(log, pos) == SubSeq(log, pos + 1, Len(log))

\* lines 473-480: the number of items the loop goes through
items_to_transfer(expected_count) ==
    IF expected_count # 0 THEN expected_count ELSE MAX_ITEMS

\* the first of the items picked out, 0 when there is none ('break')
FirstItem(picked) ==
    IF picked = {} THEN 0 ELSE CHOOSE i \in picked : \A j \in picked : i <= j

\* a start test that does not look at the item's status
can_start_any(item, name, skip) == contains(item.filename, name)

\* line 738: the item a 'Start sending' line is taken for while watching
can_start(item, name, skip) == item.status \notin skip /\ contains(item.filename, name)

\* lines 700 and 754: the item a 'Done sending' line is taken for
can_complete(item, name) == item.status # "completed" /\ contains(item.filename, name)

mark(list, i, status) == [list EXCEPT ![i].status = status]

\* lines 617-629: the 'Start sending' lines written during queueing
RECURSIVE mark_started(_, _)
mark_started(lines, list) ==
    IF lines = <<>> THEN list
    ELSE LET i == IF lines[1].kind = "Start"
                  THEN FirstItem({k \in 1..Len(list) :
                            /\ contains(list[k].filename, lines[1].file)
                            /\ list[k].status = "queued"})
                  ELSE 0
         IN mark_started(Tail(lines), IF i = 0 THEN list ELSE mark(list, i, "in-progress"))

\* lines 693-711 (live = FALSE) and 728-765 (live = TRUE): the lines read are
\* gone through in order; st holds the list, completed_count and the
\* positions of the 'Done sending' lines gone through
RECURSIVE process_lines(_, _, _, _)
process_lines(lines, pos, live, st) ==
    IF lines = <<>> THEN st
    ELSE LET line == lines[1]
             s == IF live /\ line.kind = "Start"
                  THEN FirstItem({k \in 1..Len(st.list) :
                           can_start(st.list[k], line.file, {"in-progress", "completed"})})
                  ELSE 0
             c == IF line.kind = "Done"
                  THEN FirstItem({k \in 1..Len(st.list) : can_complete(st.list[k], line.file)})
                  ELSE 0
             next == [list |-> IF s # 0 THEN mark(st.list, s, "in-progress")
                               ELSE IF c # 0 THEN mark(st.list, c, "completed")
                               ELSE st.list,
                      completed_count |-> st.completed_count + (IF c # 0 THEN 1 ELSE 0),
                      done_read |-> IF line.kind = "Done"
                                    THEN Append(st.done_read, pos + 1)
                                    ELSE st.done_read]
         IN process_lines(Tail(lines), pos + 1, live, next)

\* the file names of the completed items, in list order (lines 774 and 783)
completed_of(list) ==
    LET RECURSIVE names(_)
        names(items) ==
            IF items = <<>> THEN <<>>
            ELSE (IF items[1].status = "completed" THEN <<items[1].filename>> ELSE <<>>)
                 \o names(Tail(items))
    IN names(list)

\* line 836: the next command is DELETE_SOURCE_FILE
delete_follows(sequence, idx) ==
    idx + 1 <= Len(sequence) /\ sequence[idx + 1] = "DELETE_SOURCE_FILE"

\* lines 878-888: the file quoted by the last 'Done sending' line of the log
last_done(log) ==
    LET dones == {i \in 1..Len(log) : log[i].kind = "Done"}
    IN IF dones = {} THEN None
       ELSE [file |-> log[CHOOSE i \in dones : \A j \in dones : j <= i].file]

\* execute_sequence is called with a sequence; LOCATE_SHARE has counted the
\* files of the share; the log file is there or not
execute_sequence_begin ==
    /\ xs.pc = "idle"
    /\ \E sequence \in Sequences, file_count \in 1..MaxItems, log_ok \in BOOLEAN :
         xs' = [pc |-> "cmd", sequence |-> sequence, idx |-> 1,
                file_count |-> file_count, log_ok |-> log_ok,
                transferred_count |-> 0, queueing_start_pos |-> 0,
                should_delete |-> FALSE, completed_files |-> None,
                removed |-> <<>>, item_num |-> 0]
    /\ mon' = [pc |-> "off"]
    /\ UNCHANGED <<hdrVars, videoVars, udpVars, zcVars, gnVars, tcpVars, scanVars,
                   cacheVars, textVars, watchVars, tl, slog>>

\* lines 811-819 and 872-894: the command at idx.  TRANSFER_ALL with no log
\* file gets 0 from transfer_all_items and goes through the else branch of
\* line 859, where completed_files has no value yet; with a log file the
\* queueing loop starts.  DELETE_SOURCE_FILE on its own removes the file of
\* the last 'Done sending' line.
execute_sequence_command ==
    /\ xs.pc = "cmd"
    /\ IF xs.idx > Len(xs.sequence)
       THEN xs' = [xs EXCEPT !.pc = "done"]
       ELSE IF xs.sequence[xs.idx] = "TRANSFER_ALL"
       THEN IF xs.log_ok
            THEN xs' = [xs EXCEPT !.pc = "queue", !.item_num = 0,
                                  !.transferred_count = 0,
                                  !.queueing_start_pos = Len(slog)]
            ELSE LET should_delete == xs.should_delete \/ delete_follows(xs.sequence, xs.idx)
                 IN IF should_delete /\ xs.completed_files = None
                    THEN xs' = [xs EXCEPT !.pc = "raised", !.should_delete = should_delete]
                    ELSE xs' = [xs EXCEPT !.idx = @ + 1, !.should_delete = should_delete]
       ELSE IF xs.should_delete \/ last_done(slog) = None
            THEN xs' = [xs EXCEPT !.idx = @ + 1, !.should_delete = FALSE]
            ELSE xs' = [xs EXCEPT !.idx = @ + 1, !.should_delete = FALSE,
                                  !.removed = Append(@, last_done(slog).file)]
    /\ tl' = IF xs.idx <= Len(xs.sequence) /\ xs.sequence[xs.idx] = "TRANSFER_ALL" /\ xs.log_ok
             THEN <<>> ELSE tl
    /\ UNCHANGED <<hdrVars, videoVars, udpVars, zcVars, gnVars, tcpVars, scanVars,
                   cacheVars, textVars, watchVars, slog, mon>>

\* lines 521-615: one item of the queueing loop; the file name is found in
\* the log or not, and an item whose name is already listed is passed over
transfer_item ==
    /\ xs.pc = "queue"
    /\ xs.item_num < items_to_transfer(xs.file_count)
    /\ \E filename \in XferFiles \cup {""} :
         IF filename # "" /\ \E i \in 1..Len(tl) : tl[i].filename = filename
         THEN /\ xs' = [xs EXCEPT !.item_num = @ + 1]
              /\ tl' = tl
         ELSE /\ xs' = [xs EXCEPT !.item_num = @ + 1, !.transferred_count = @ + 1]
              /\ tl' = Append(tl,
                    [filename |-> IF filename # "" THEN filename
                                  ELSE "Item " \o ToString(xs.item_num + 1),
                     status |-> "queued"])
    /\ UNCHANGED <<hdrVars, videoVars, udpVars, zcVars, gnVars, tcpVars, scanVars,
                   cacheVars, textVars, watchVars, slog, mon>>

\* lines 617-652 and 825-840: the starts logged during queueing are marked,
\* transfer_all_items returns, and monitoring is entered when anything was
\* queued
transfer_all_return ==
    /\ xs.pc = "queue"
    /\ xs.item_num = items_to_transfer(xs.file_count)
    /\ tl' = mark_started(lines_from(slog, xs.queueing_start_pos), tl)
    /\ xs' = [xs EXCEPT !.pc = "monitor",
                        !.should_delete = @ \/ delete_follows(xs.sequence, xs.idx)]
    /\ mon' = [pc |-> "history", expected_count |-> xs.transferred_count,
               completed_count |-> 0, start_pos |-> 0, done_read |-> <<>>]
    /\ UNCHANGED <<hdrVars, videoVars, udpVars, zcVars, gnVars, tcpVars, scanVars,
                   cacheVars, textVars, watchVars, slog>>

\* lines 683-711: the completions logged since queueing began
monitor_history ==
    /\ mon.pc = "history"
    /\ LET st == process_lines(lines_from(slog, xs.queueing_start_pos),
                               xs.queueing_start_pos, FALSE,
                               [list |-> tl, completed_count |-> 0, done_read |-> <<>>])
       IN /\ tl' = st.list
          /\ mon' = [mon EXCEPT !.pc = "tell", !.completed_count = st.completed_count,
                                !.done_read = st.done_read]
    /\ UNCHANGED <<hdrVars, videoVars, udpVars, zcVars, gnVars, tcpVars, scanVars,
                   cacheVars, textVars, watchVars, slog, xs>>

\* lines 713-716: the log is opened again and its end taken as the position
\* from which to watch
monitor_tell ==
    /\ mon.pc = "tell"
    /\ mon' = [mon EXCEPT !.pc = "poll", !.start_pos = Len(slog)]
    /\ UNCHANGED <<hdrVars, videoVars, udpVars, zcVars, gnVars, tcpVars, scanVars,
                   cacheVars, textVars, watchVars, slog, xs, tl>>

\* lines 840-848: monitor_all_transfers has returned its list
monitor_returns(list) ==
    xs' = [xs EXCEPT !.pc = "cmd", !.idx = @ + 1,
                     !.completed_files = [list |-> completed_of(list)]]

\* lines 721-776: one turn of the watch loop: read what is new, go through
\* it, and return when the expected number has completed
monitor_poll ==
    /\ mon.pc = "poll"
    /\ LET st == process_lines(lines_from(slog, mon.start_pos), mon.start_pos, TRUE,
                               [list |-> tl, completed_count |-> mon.completed_count,
                                done_read |-> mon.done_read])
       IN /\ tl' = st.list
          /\ IF st.completed_count >= mon.expected_count
             THEN /\ mon' = [mon EXCEPT !.pc = "off", !.start_pos = Len(slog),
                                        !.completed_count = st.completed_count,
                                        !.done_read = st.done_read]
                  /\ monitor_returns(st.list)
             ELSE /\ mon' = [mon EXCEPT !.start_pos = Len(slog),
                                        !.completed_count = st.completed_count,
                                        !.done_read = st.done_read]
                  /\ xs' = xs
    /\ UNCHANGED <<hdrVars, videoVars, udpVars, zcVars, gnVars, tcpVars, scanVars,
                   cacheVars, textVars, watchVars, slog>>

\* lines 721 and 782-783: the two hours are over
monitor_timeout ==
    /\ mon.pc = "poll"
    /\ mon' = [mon EXCEPT !.pc = "off"]
    /\ monitor_returns(tl)
    /\ UNCHANGED <<hdrVars, videoVars, udpVars, zcVars, gnVars, tcpVars, scanVars,
                   cacheVars, textVars, watchVars, slog, tl>>

\* line 910, or the exception leaving execute_sequence; the log file and the
\* list stay as they are
execute_sequence_return ==
    /\ xs.pc \in {"done", "raised"}
    /\ xs' = [pc |-> "idle"]
    /\ mon' = [pc |-> "off"]
    /\ UNCHANGED <<hdrVars, videoVars, udpVars, zcVars, gnVars, tcpVars, scanVars,
                   cacheVars, textVars, watchVars, tl, slog>>

NextTransfer ==
    \/ execute_sequence_begin
    \/ execute_sequence_command
    \/ transfer_item
    \/ transfer_all_return
    \/ monitor_history
    \/ monitor_tell
    \/ monitor_poll
    \/ monitor_timeout
    \/ execute_sequence_return
    \/ server_log

(***************************************************************************)
(* pytivo_watcher_service.py: the main loop of the watcher and the watch   *)
(* directory it lists.                                                     *)
(***************************************************************************)
\* Number of files that come and go in the watch directory.
NWatchFiles == 3

WatchFiles == 1..NWatchFiles

\* the suffix of each file: two kinds of video and one that is none
suffix_of(file) ==
    IF file % 3 = 1 THEN ".mkv" ELSE IF file % 3 = 2 THEN ".MP4" ELSE ".txt"

video_extensions == {".mkv", ".mp4", ".avi", ".m4v", ".mov", ".mpg", ".mpeg", ".ts"}

\* lines 35-50: the video files old enough to be complete
get_video_files(dir) ==
    {file \in DOMAIN dir :
        /\ dir[file] # "absent"
        /\ lower(suffix_of(file)) \in video_extensions
        /\ dir[file] = "aged"}

WatchInit ==
    /\ wdir = [file \in WatchFiles |-> "absent"]
    /\ wt = [last_file_count |-> 0, followed |-> {}, result |-> "none"]

\* a file is written into the directory, or written again
file_arrive ==
    /\ \E file \in WatchFiles :
         /\ wdir[file] \in {"absent", "young"}
         /\ wdir' = [wdir EXCEPT ![file] = "young"]
         /\ wt' = wt
    /\ wdir' # wdir
    /\ UNCHANGED <<hdrVars, videoVars, udpVars, zcVars, gnVars, tcpVars, scanVars,
                   cacheVars, textVars, xferVars>>

\* MIN_FILE_AGE seconds pass without the file being modified
file_age ==
    /\ \E file \in WatchFiles :
         /\ wdir[file] = "young"
         /\ wdir' = [wdir EXCEPT ![file] = "aged"]
    /\ wt' = wt
    /\ UNCHANGED <<hdrVars, videoVars, udpVars, zcVars, gnVars, tcpVars, scanVars,
                   cacheVars, textVars, xferVars>>

\* a file is taken out of the directory
file_remove ==
    /\ \E file \in WatchFiles :
         /\ wdir[file] # "absent"
         /\ wdir' = [wdir EXCEPT ![file] = "absent"]
         /\ wt' = [wt EXCEPT !.followed = @ \ {file}]
    /\ UNCHANGED <<hdrVars, videoVars, udpVars, zcVars, gnVars, tcpVars, scanVars,
                   cacheVars, textVars, xferVars>>

\* line 106: the test that lets a check start a transfer
count_changed(file_count, last_file_count) == file_count # last_file_count

\* lines 98-121: one turn of the main loop; run_transfer succeeds or fails
\* and its result is not looked at
watch_check ==
    /\ LET video_files == get_video_files(wdir)
           file_count == Cardinality(video_files)
       IN IF count_changed(file_count, wt.last_file_count)
          THEN IF file_count > 0
               THEN \E success \in BOOLEAN :
                      wt' = [last_file_count |-> file_count,
                             followed |-> wt.followed \cup video_files,
                             result |-> IF success THEN "ok" ELSE "failed"]
               ELSE wt' = [wt EXCEPT !.last_file_count = file_count]
          ELSE wt' = wt
    /\ wdir' = wdir
    /\ UNCHANGED <<hdrVars, videoVars, udpVars, zcVars, gnVars, tcpVars, scanVars,
                   cacheVars, textVars, xferVars>>

NextWatch == file_arrive \/ file_age \/ file_remove \/ watch_check

Init ==
    /\ HdrInit /\ VideoInit /\ UdpInit /\ ZcInit /\ GnInit /\ TcpInit /\ ScanInit
    /\ CacheInit /\ TextInit /\ XferInit /\ WatchInit

NextHeader == TivoHeader \/ TivoHeaderDrop

SpecHeader == Init /\ [][NextHeader]_vars

SpecVideo == Init /\ [][NextVideo]_vars

\* tivo_header called on its own between requests, and send_file with the
\* headers it builds
NextFlag ==
    \/ vpc = "idle" /\ TivoHeader
    \/ TivoHeaderDrop
    \/ hdrIn = None /\ NextVideo

SpecFlag == Init /\ [][NextFlag]_vars

SpecUdp == Init /\ [][NextUdp]_vars

SpecZC == Init /\ [][NextZC]_vars

SpecLife == Init /\ [][NextLife]_vars

SpecGetName == Init /\ [][NextGetName]_vars

\* the thread inside get_name runs whenever its recv can return; nothing is
\* assumed of the peer
FairSpecGetName == SpecGetName /\ WF_vars(get_name_recv)

SpecListen == Init /\ [][NextListen]_vars

SpecServe == Init /\ [][NextServe]_vars

SpecScan == Init /\ [][NextScan]_vars

SpecCache == Init /\ [][NextCache]_vars

SpecText == Init /\ [][NextText]_vars

SpecTransfer == Init /\ [][NextTransfer]_vars

SpecWatch == Init /\ [][NextWatch]_vars

\* the main loop keeps turning: time.sleep(CHECK_INTERVAL) returns
FairSpecWatch == SpecWatch /\ WF_vars(watch_check)

\* the listener thread runs whenever it is not blocked in accept or recv;
\* nothing is assumed of the peers
FairSpecListen == SpecListen /\ WF_vars(ServerStep)

C9_InvalidGetsErrorStatus ==
    (resp # None /\ ~loc.valid /\ RangeOffset(req.range) >= 0) =>
        /\ resp.status \notin {200, 206}
        /\ BodyBytes(wfile) = 0

(***************************************************************************)
(* C10: every compatible request is answered 200 with exact length         *)
(* headers: Content-Length is the number of body bytes then written and is *)
(* never negative, and Content-Range is 'bytes a-b/total' with a = offset, *)
(* total = file size + header length and b - a + 1 = Content-Length.       *)
(* Stated for transfers that no write error cut short.                     *)
(***************************************************************************)
C10_ExactLengthHeaders ==
    (vpc = "done" /\ loc.compatible /\ ~loc.broken /\ RangeOffset(req.range) >= 0) =>
        LET offset == RangeOffset(req.range)
            cl == Header(resp, "Content-Length").value
            total == req.fsize + HeaderLen(loc.thead)
        IN /\ resp.status = 200
           /\ cl >= 0
           /\ cl = BodyBytes(wfile)
           /\ Header(resp, "Content-Range").value =
                 ContentRange(offset, offset + cl - 1, total)

(***************************************************************************)
(* C8: a send_beacon run in which every sendto took the whole beacon sent  *)
(* exactly one datagram, carrying the broadcast beacon, to port 2190 of    *)
(* each configured target other than 'listen', in list order, and none for *)
(* 'listen': "listen 10.0.0.5" gives one datagram, "listen" alone none.    *)
(***************************************************************************)
C8_OneDatagramPerTarget ==
    (/\ udp.pc = "done"
     /\ \A k \in 1..Len(blog) : blog[k].level # "error"
     /\ \A k \in 1..Len(datagrams) : datagrams[k].whole) =>
        LET words == split(udp.beacon_ips)
            expected == SelectSeq(words, LAMBDA w : w # "listen")
        IN /\ Len(datagrams) = Len(expected)
           /\ \A k \in 1..Len(datagrams) :
                /\ datagrams[k].ip = expected[k]
                /\ datagrams[k].port = 2190
                /\ datagrams[k].data =
                      format_beacon("broadcast", TRUE, services, platform)
           /\ udp.beacon_ips = "listen" => datagrams = <<>>
           /\ udp.beacon_ips = "listen 10.0.0.5" =>
                 Len(datagrams) = 1 /\ datagrams[1].ip = "10.0.0.5"

\* the run of scenario B: "listen 10.0.0.5" has sent its one datagram
C8_Witness ==
    /\ udp.pc = "done"
    /\ udp.beacon_ips = "listen 10.0.0.5"
    /\ Len(blog) = 1 /\ blog[1].level = "debug"
    /\ Len(datagrams) = 1
    /\ datagrams[1].whole

(***************************************************************************)
(* C6: the announcements one ZCBroadcast registers have pairwise distinct  *)
(* instance names (title + service type), and no announced title is a      *)
(* name the initial scan returned.                                         *)
(***************************************************************************)
C6_DistinctAnnouncedNames ==
    zc.pc \in {"announce", "ready", "failed"} =>
        /\ \A i, j \in 1..Len(zc.share_info) :
              i # j => zc.share_info[i].name # zc.share_info[j].name
        /\ \A i \in 1..Len(zc.share_info) :
              zc.share_info[i].title \notin zc.old_titles

(***************************************************************************)
(* C7: a second shutdown (Beacon.stop called twice) unregisters no service *)
(* a second time and closes the discovery resource exactly once.  Stated   *)
(* for an announcer that has registered at least one share.                *)
(***************************************************************************)
C7_ShutdownIdempotent ==
    (stops >= 1 /\ bd = "zc" /\ zc.share_info # <<>>) =>
        /\ \A i \in 1..Len(zc.share_info) :
              Occurrences(rz.unregistered, zc.share_info[i].name)
                 <= Occurrences(rz.registered, zc.share_info[i].name)
        /\ rz.closed = 1

(***************************************************************************)
(* C4: get_name returns the peer's machine name only when a complete frame *)
(* (all four length bytes and as many body bytes as they announce) holding *)
(* a machine=<name> line was received; after a failed connect or a         *)
(* malformed or truncated frame, or without a machine= line, it returns    *)
(* the address it was given.                                               *)
(***************************************************************************)
C4_NameOnlyFromCompleteFrame ==
    gn.pc = "returned" =>
        LET complete == /\ gn.connected
                        /\ gn.rd.phase = "done"
                        /\ Len(gn.rd.head) = 4
                        /\ Len(gn.rd.block) = gn.rd.length
            m == machine_name(Implode(gn.rd.block))
        IN IF complete /\ m # None
           THEN gn.name.value = m.group
           ELSE gn.name.value = gn.address

(***************************************************************************)
(* C3: every peer that has connected and sent a well-formed frame (and     *)
(* keeps its socket open) is eventually sent one length-prefixed frame     *)
(* whose text has the line method=connected.                               *)
(***************************************************************************)
C3_FrameIsAnswered ==
    \A c \in ClientIds : FullSent(c) ~> (Answered(c) \/ clients[c].closed)

(***************************************************************************)
(* C5: while the listener is busy with one accepted peer, however slow or  *)
(* hung, another peer that has connected and sent a well-formed frame is   *)
(* still answered (as long as the listener thread is alive).               *)
(***************************************************************************)
C5_HungPeerDoesNotBlock ==
    \A c1, c2 \in ClientIds :
        (c1 # c2 /\ srv.pc = "recv" /\ srv.client = c1 /\ FullSent(c2))
            ~> (Answered(c2) \/ clients[c2].closed \/ srv.pc = "dead")

(***************************************************************************)
(* C11: a chunked (not compatible) response that send_file has finished    *)
(* ends with exactly one zero-length chunk marker and then a flush, unless *)
(* the connection failed under the write; nothing is ever written after    *)
(* the marker but the flush, and a compatible response has no marker.      *)
(***************************************************************************)
Markers(w) == {i \in 1..Len(w) : w[i].kind = "marker"}

C12_UnwrapNeedsToolAndKey ==
    (loc # None /\ is_tivo_file_of(req.path) /\ loc.mime = MIME_MPEG) =>
        /\ ~loc.compatible
        /\ loc.valid => (req.tivodecode /\ req.tivo_mak)
        /\ ~(req.tivodecode /\ req.tivo_mak) => (~loc.valid /\ BodyBytes(wfile) = 0)

C12_Witness ==
    /\ vpc = "done" /\ is_tivo_file_of(req.path) /\ loc.mime = MIME_MPEG
    /\ req.tivodecode /\ ~req.tivo_mak
    /\ req.probe /\ req.resumable /\ RangeOffset(req.range) > 0
    /\ ~loc.valid /\ BodyBytes(wfile) = 0

(***************************************************************************)
(* C13: the validity verdict of send_file equals                           *)
(*   (needsUnwrap => tool and key) and (offset > 0 => ((compatible and     *)
(*   offset < file size) or (not compatible and resumable)))               *)
(* for every request whose verdict is computed.                            *)
(***************************************************************************)
C13_ValidityFormula ==
    (loc # None /\ vpc # "raised") =>
        LET offset == RangeOffset(req.range)
            needsUnwrap == is_tivo_file_of(req.path) /\ loc.mime = MIME_MPEG
        IN loc.valid =
             (/\ needsUnwrap => (req.tivodecode /\ req.tivo_mak)
              /\ offset > 0 => \/ loc.compatible /\ offset < req.fsize
                               \/ ~loc.compatible /\ req.resumable)

C15_StatFailureFallsBack ==
    (req # None /\ ~req.exists) =>
        /\ vpc # "raised"
        /\ ~loc.compatible
        /\ resp # None => Header(resp, "Transfer-Encoding") = [value |-> "chunked"]

(***************************************************************************)
(* C16: once Beacon.stop has returned, no UDP beacon is sent any more and  *)
(* no timer is armed again, wherever the timer's thread was in start when  *)
(* stop ran.                                                               *)
(***************************************************************************)
C16_NoBeaconAfterStop ==
    [][tm.stopped => (tm'.timer # "armed" /\ Len(datagrams') <= Len(datagrams))]_vars

(***************************************************************************)
(* C19: when Zeroconf cannot be set up or an announcement fails, the       *)
(* Beacon is constructed with bd = None; add_service and start go on to    *)
(* send the beacon to every target, and stop does not raise.               *)
(***************************************************************************)
C19_DiscoveryFailureTolerated ==
    /\ zc.pc \in {"failed", "none"} => bd = "None"
    /\ bd = "None" => ~tm.raised
    /\ (/\ bd = "None" /\ udp.pc = "done"
        /\ \A k \in 1..Len(blog) : blog[k].level # "error"
        /\ \A k \in 1..Len(datagrams) : datagrams[k].whole) =>
          Len(datagrams) = Len(SelectSeq(split(udp.beacon_ips), LAMBDA w : w # "listen"))

C19_Witness ==
    /\ zc.pc = "failed" /\ bd = "None"
    /\ services # <<>>
    /\ udp.pc = "done" /\ udp.caller = "start"
    /\ Len(datagrams) = 1 /\ datagrams[1].whole
    /\ stops >= 1 /\ tm.stopped /\ tm.timer = "cancelled"

(***************************************************************************)
(* C17: a failure on one connection of the TCP listener (the peer closes   *)
(* before its four length bytes are in, or the answer cannot be written)   *)
(* ends that connection only: the listener thread is never ended by it.    *)
(***************************************************************************)
C17_FailureScopedToConnection == srv.pc # "dead"

(***************************************************************************)
(* C18: the frame the TCP listener answers with says method=connected and  *)
(* carries the placeholder line services=TiVoMediaServer:0/http, not the   *)
(* list of registered services.                                            *)
(***************************************************************************)
C18_ListenerSendsPlaceholder ==
    \A c \in ClientIds :
        clients[c].reply # <<>> =>
            LET text == Implode(SubSeq(clients[c].reply, 5, Len(clients[c].reply)))
            IN /\ contains(text, "\nmethod=connected\n")
               /\ contains(text, "\nservices=TiVoMediaServer:0/http\n")
               /\ services # <<>> =>
                     ~contains(text, "services=" \o format_services(services) \o "\n")

(***************************************************************************)
(* C20: a reader of config.tivos that runs while a scan is under way never *)
(* finds a torn record: for a TSN it finds no record, or a record with the *)
(* name, address, port and all the properties of one advertisement.        *)
(***************************************************************************)
C20_NoTornRecord ==
    (seen # None /\ seen.rec # None) =>
        \E a \in Ads : seen.rec = full_record(a)

(***************************************************************************)
(* C21: whatever the interleaving of request threads in get_details_xml,   *)
(* no call fails because the entry its membership test found was evicted   *)
(* before the read, and each call returns the details of its own key.      *)
(***************************************************************************)
C21_CacheSafeUnderConcurrency ==
    \A t \in Threads :
        /\ thr[t].pc # "raised"
        /\ thr[t].pc = "returned" =>
              \E rev \in 0..MaxRevisions : thr[t].details = render(thr[t].key, rev)

(***************************************************************************)
(* C22: a beacon text, cut at its newlines, is exactly the six lines       *)
(* tivoconnect=1, method=<broadcast|connected>, identity, machine,         *)
(* platform, services (the joined registered services when asked for,      *)
(* otherwise the placeholder), in this order, followed by one empty line:  *)
(* the text ends with the newline of the services line.                    *)
(***************************************************************************)
\* the pieces of text between its newline characters
lines_of(text) ==
    LET P == {i \in 1..Len(text) : SubSeq(text, i, i) = "\n"}
        n == Cardinality(P)
        pos(k) == CHOOSE i \in P : Cardinality({j \in P : j < i}) = k - 1
        first(k) == IF k = 1 THEN 1 ELSE pos(k - 1) + 1
        last(k) == IF k = n + 1 THEN Len(text) ELSE pos(k) - 1
    IN [k \in 1..(n + 1) |-> SubSeq(text, first(k), last(k))]

C23_FrameRoundTrip ==
    (gn.pc = "returned" /\ gn.connected /\ gn.rd.phase = "done") =>
        /\ Len(gn.rd.block) = gn.rd.length
        /\ \A t \in PeerTexts :
              peer.plan = frame_of(t) => Implode(gn.rd.block) = t

\* the smallest multiple of m that is >= x
RoundUp(x, m) == ((x + m - 1) \div m) * m

Kinds(w) == {w[i].kind : i \in 1..Len(w)}

RECURSIVE DataOf(_)
DataOf(dg) == IF dg = <<>> THEN "" ELSE dg[1].data \o DataOf(Tail(dg))

\* the datagrams are, log entry by log entry, sends to the entry's target
\* that together carry the first 'bytes' bytes of the beacon
RECURSIVE Accounted(_, _, _)
Accounted(dg, lg, beacon) ==
    IF lg = <<>> THEN dg = <<>>
    ELSE \E n \in 0..Len(dg) :
            /\ \A j \in 1..n : dg[j].ip = lg[1].to /\ dg[j].port = BEACON_PORT
            /\ DataOf(SubSeq(dg, 1, n)) = SubSeq(beacon, 1, lg[1].bytes)
            /\ Accounted(SubSeq(dg, n + 1, Len(dg)), Tail(lg), beacon)

(***************************************************************************)
(* C27: in send_beacon a partial send is continued with the unsent         *)
(* remainder until the whole beacon has gone to the target, and a socket   *)
(* error while sending to one target is logged and skips that target only: *)
(* every target of the list other than 'listen' has its log entry, in list *)
(* order, a target without error got the whole beacon, and a tick of the   *)
(* periodic loop ends with its next timer armed.                           *)
(***************************************************************************)
C27_PartialSendsAndErrorsPerTarget ==
    udp.pc \in {"arm", "done"} =>
        LET expected == SelectSeq(split(udp.beacon_ips), LAMBDA w : w # "listen")
        IN /\ Len(blog) = Len(expected)
           /\ \A k \in 1..Len(blog) :
                /\ blog[k].to = expected[k]
                /\ blog[k].level \in {"debug", "error"}
                /\ blog[k].level = "debug" => blog[k].bytes = Len(udp.beacon)
           /\ Accounted(datagrams, blog, udp.beacon)
           /\ (udp.pc = "done" /\ udp.caller = "start") => tm.timer = "armed"

\* a tick in which the first target failed and the second took the beacon
\* in two sends
C27_Witness ==
    /\ udp.pc = "done" /\ udp.caller = "start"
    /\ Len(blog) = 2
    /\ blog[1].level = "error" /\ blog[2].level = "debug"
    /\ \E k \in 1..Len(datagrams) :
          datagrams[k].ip = blog[2].to /\ Len(datagrams[k].data) < Len(udp.beacon)
    /\ tm.timer = "armed"

(***************************************************************************)
(* C28: once Beacon.stop has run, every service that registerService       *)
(* accepted during the construction of ZCBroadcast has been unregistered,  *)
(* also when the construction failed after some shares were registered.    *)
(***************************************************************************)
C28_NoAnnouncementOutlivesStop ==
    stops >= 1 =>
        \A k \in 1..Len(rz.registered) :
            \E u \in 1..Len(rz.unregistered) :
                rz.unregistered[u] = rz.registered[k]

\* the identity properties an advertisement carries
Identities(info) == {Get(info.props, "TSN"), Get(info.props, "tsn")} \ {""}

\* the value this scan has for a field of the record: the advertised
\* property of that name when there is one, the resolved value otherwise
ThisScan(info, key, resolved) ==
    IF HasKey(info.props, key) THEN Get(info.props, key) ELSE resolved

(***************************************************************************)
(* C29: every step of scan() leaves the registry as an upsert would: no    *)
(* record is ever removed; a record changes only under a TSN that the peer *)
(* being resolved advertises as identity; a peer with no identity property *)
(* or no service info changes nothing and the scan goes on with the next   *)
(* name; and when the scan is through with a peer, the record under its    *)
(* TSN carries the name, address, port and properties of this scan.        *)
(***************************************************************************)
C29_ScanUpserts ==
    [][/\ \A t \in TSNs : tivos[t] # None => tivos'[t] # None
       /\ \A t \in TSNs : tivos'[t] # tivos[t] =>
             /\ scn.pc \in {"resolve", "props"}
             /\ scn.i <= Len(scn.names)
             /\ t \in Identities(AdOf(scn.names[scn.i]))
       /\ (scn.pc = "resolve" /\ scn.i <= Len(scn.names) /\ scn' # scn) =>
             /\ scn'.pc \in {"resolve", "props"}
             /\ Identities(AdOf(scn.names[scn.i])) = {} => scn'.pc = "resolve"
             /\ scn'.pc = "resolve" => tivos' = tivos /\ scn'.i = scn.i + 1
       /\ (scn.pc = "props" /\ scn'.pc = "resolve") =>
             LET info == AdOf(scn.names[scn.i])
                 rec == tivos'[scn.tsn]
             IN /\ scn.tsn \in Identities(info)
                /\ rec # None
                /\ rec.name = ThisScan(info, "name", info.name)
                /\ rec.address = ThisScan(info, "address", info.address)
                /\ rec.port = ThisScan(info, "port", info.port)
                /\ \A k \in 1..Len(info.props) :
                      info.props[k][1] \notin {"name", "address", "port"} =>
                          Get(rec.props, info.props[k][1]) = info.props[k][2]
                /\ \A k \in 1..Len(rec.props) :
                      Get(info.props, rec.props[k][1]) = rec.props[k][2]
      ]_vars

\* a second scan has passed over a peer without identity and replaced the
\* record of one TSN, while the record of the other TSN, from the first
\* scan, is still there
C29_Witness ==
    /\ scn.pc = "resolve" /\ scn.scans = 2
    /\ scn.names = <<"Printer", "Den">> /\ scn.i = 3
    /\ tivos["7460001"] # None /\ tivos["7460001"].name = "Den"
    /\ tivos["8480002"] # None /\ tivos["8480002"].name = "Bedroom"

(***************************************************************************)
(* C30: when a write to the client fails while a compatible file is being  *)
(* streamed, the loop stops at once: nothing more is written, what was     *)
(* sent stays as it is, the file is closed and send_file goes on to its    *)
(* 'Done sending' line and returns normally; the count it reports is the   *)
(* number of file bytes written before the failing block.                  *)
(***************************************************************************)
C30_WriteFailureStopsTransfer ==
    [][/\ (vpc = "loop" /\ loc'.broken) =>
             /\ vpc' = "close"
             /\ wfile' = wfile
             /\ loc'.count = loc.count
       /\ (vpc \in {"close", "tail"} /\ loc.compatible /\ loc.broken) =>
             /\ wfile' = wfile
             /\ vpc' = IF vpc = "close" THEN "tail" ELSE "done"
             /\ loc'.count = FileBytes(wfile)
             /\ vpc' = "done" => vlog'[Len(vlog')] = "Done sending"
      ]_vars

\* the second block of a file could not be written; send_file has returned
\* from its last log line with the first block counted
C30_Witness ==
    /\ vpc = "done" /\ loc.valid /\ loc.compatible /\ loc.broken
    /\ loc.count = BLOCK
    /\ req.fsize > BLOCK /\ RangeOffset(req.range) = 0
    /\ FileBytes(wfile) = BLOCK
    /\ vlog[Len(vlog)] = "Done sending"

\* number of times a line occurs in the log
Logged(log, line) == Cardinality({i \in 1..Len(log) : log[i] = line})

C32_GetNameTerminates == (gn.pc = "recv") ~> (gn.pc = "returned")

(***************************************************************************)
(* C33: on each beacon TCP connection the listener sends at most one       *)
(* response frame, only after all the bytes the client's length prefix     *)
(* announced have been received, and the connection is closed after it.    *)
(***************************************************************************)
C33_ResponseOnlyAfterCompleteFrame ==
    \A c \in ClientIds :
        clients[c].reply # <<>> =>
            /\ clients[c].sent = Len(clients[c].plan)
            /\ clients[c].inbox = <<>>
            /\ clients[c].state = "served"
            /\ srv.client # c
            /\ unpack_I(SubSeq(clients[c].reply, 1, 4)) = Len(clients[c].reply) - 4

\* the string stored under a key, None when there is none
Stored(c, key) ==
    IF \E i \in 1..Len(c) : c[i][1] = key
    THEN [value |-> c[CHOOSE i \in 1..Len(c) : c[i][1] = key][2]]
    ELSE None

(***************************************************************************)
(* C34: a call of get_details_xml whose key is in the cache returns the    *)
(* stored string without rendering, also when the metadata has changed     *)
(* since; a call whose key is absent renders once, from the metadata of    *)
(* that moment, and stores the result under its key; the cache never holds *)
(* more entries than its capacity.  Stated for calls whose entry is still  *)
(* there when they read it.                                                *)
(***************************************************************************)
C34_CacheReuse ==
    [][/\ Len(cache') <= CACHE_SIZE
       /\ \A t \in Threads :
            /\ (thr[t].pc = "idle" /\ thr'[t].pc # "idle") =>
                  /\ thr'[t].pc = "read" <=> Stored(cache, thr'[t].key) # None
                  /\ thr'[t].pc = "render" <=> Stored(cache, thr'[t].key) = None
                  /\ cache' = cache
            /\ (thr[t].pc = "read" /\ thr'[t].pc = "returned") =>
                  /\ [value |-> thr'[t].details] = Stored(cache, thr[t].key)
                  /\ \A k \in CacheKeys : Stored(cache', k) = Stored(cache, k)
            /\ (thr[t].pc = "render" /\ thr'[t].pc = "returned") =>
                  /\ thr'[t].details = render(thr[t].key, meta)
                  /\ Stored(cache', thr[t].key) = [value |-> thr'[t].details]
      ]_vars

\* a call has returned the stored details of its key after the metadata
\* changed: they are not what a rendering would give now
C34_Witness ==
    \E t \in Threads :
        /\ thr[t].pc = "returned"
        /\ meta = 1
        /\ thr[t].details = render(thr[t].key, 0)
        /\ Stored(cache, thr[t].key) = [value |-> thr[t].details]

C36_ResolvedFieldsKept ==
    \A t \in TSNs :
        tivos[t] # None =>
            \E a \in Ads :
                /\ tivos[t].name = a.name
                /\ tivos[t].address = a.address
                /\ tivos[t].port = a.port

\* the sequence has DELETE_SOURCE_FILE right after TRANSFER_ALL
DeleteAfterTransfer(sequence) ==
    \E i \in 1..(Len(sequence) - 1) :
        sequence[i] = "TRANSFER_ALL" /\ sequence[i + 1] = "DELETE_SOURCE_FILE"

\* C37: execute_sequence never ends by raising, also when TRANSFER_ALL has
\* queued nothing; and when it ends after a TRANSFER_ALL followed by
\* DELETE_SOURCE_FILE in which transfers were queued and reported completed,
\* remove_file has been called for every completed file.
C37_DeleteAfterTransferAll ==
    /\ xs.pc # "raised"
    /\ (/\ xs.pc = "done"
        /\ DeleteAfterTransfer(xs.sequence)
        /\ xs.transferred_count > 0
        /\ xs.completed_files # None)
       => \A k \in 1..Len(xs.completed_files.list) :
             \E r \in 1..Len(xs.removed) : xs.removed[r] = xs.completed_files.list[k]

Rank(status) ==
    CASE status = "queued" -> 0 [] status = "in-progress" -> 1 [] status = "completed" -> 2

Completed(list) == {i \in 1..Len(list) : list[i].status = "completed"}

\* C39: while transfer_all_items returns and monitor_all_transfers runs, the
\* list keeps its items and every status stays or moves forward in
\* queued, in-progress, completed; completed_count grows by exactly the
\* number of items that became completed in the step, equals the number of
\* completed items and is at most the length of the list.
C39_StatusOnlyForward ==
    [][(mon.pc \in {"history", "tell", "poll"} \/ (xs.pc = "queue" /\ xs'.pc = "monitor"))
       => /\ Len(tl') = Len(tl)
          /\ \A i \in 1..Len(tl) :
                /\ tl'[i].filename = tl[i].filename
                /\ Rank(tl'[i].status) >= Rank(tl[i].status)
          /\ mon'.completed_count =
                (IF mon.pc = "off" THEN 0 ELSE mon.completed_count)
                + Cardinality(Completed(tl') \ Completed(tl))
          /\ mon'.completed_count = Cardinality(Completed(tl'))
          /\ mon'.completed_count <= Len(tl')]_vars

\* a transfer was started again after it had completed, the monitor has read
\* that line, and the item is still completed and counted once
C39_Witness ==
    /\ mon.pc = "poll"
    /\ Len(tl) = 1 /\ tl[1].status = "completed"
    /\ mon.completed_count = 1 /\ mon.expected_count = 1
    /\ Len(slog) = 3 /\ mon.start_pos = 3
    /\ slog[3] = LogLine("Start", tl[1].filename)
    /\ slog[2] = LogLine("Done", tl[1].filename)

\* C40: once live monitoring has begun, every 'Done sending' line between
\* the position at which queueing began and the position the monitor has
\* read up to has been gone through by the monitor exactly once.
C40_EveryDoneLineOnce ==
    mon.pc = "poll"
    => \A i \in (xs.queueing_start_pos + 1)..mon.start_pos :
          slog[i].kind = "Done"
          => Cardinality({k \in 1..Len(mon.done_read) : mon.done_read[k] = i}) = 1

\* C38: a video file that is listed by get_video_files and has had no
\* run_transfer call since it arrived is eventually followed by one, unless
\* it leaves the directory first.
C38_NewFileIsTransferred ==
    \A file \in WatchFiles :
        (file \in get_video_files(wdir) /\ file \notin wt.followed)
            ~> (file \in wt.followed \/ file \notin get_video_files(wdir))

====
